---- MODULE Spec2Model ----
(***************************************************************************)
(* kai-bot: the command-interpretation pipeline of src/index.js (LINE      *)
(* webhook and Discord interactions), its pending-action table, its        *)
(* template cache and its Google-Sheets row store.                         *)
(*                                                                         *)
(* Text.  A JavaScript string is a sequence of UTF-16 code units.  A code  *)
(* unit is written as a one-character string when it is printable ASCII    *)
(* ("a", " ", "/"), as "\n" for a line feed, and as "uXXXX" (its code in   *)
(* hexadecimal) otherwise: <<"u30BF","u30B9","u30AF">> is タスク.  The      *)
(* empty string is <<>>.                                                   *)
(***************************************************************************)
EXTENDS Integers, Sequences, FiniteSets, TLC

----------------------------------------------------------------------------
(* String primitives of the JavaScript runtime used by index.js.           *)

Min(S) == CHOOSE x \in S : \A y \in S : x <= y
Max(S) == CHOOSE x \in S : \A y \in S : x >= y
MinOr0(S) == IF S = {} THEN 0 ELSE Min(S)
MaxOr(S, d) == IF S = {} THEN d ELSE Max(S)

UpperAZ == <<"A", "B", "C", "D", "E", "F", "G", "H", "I", "J", "K", "L", "M", "N", "O", "P", "Q", "R", "S", "T", "U", "V", "W", "X", "Y", "Z">>
LowerAZ == <<"a", "b", "c", "d", "e", "f", "g", "h", "i", "j", "k", "l", "m", "n", "o", "p", "q", "r", "s", "t", "u", "v", "w", "x", "y", "z">>
Digit09 == <<"0", "1", "2", "3", "4", "5", "6", "7", "8", "9">>

Units(s) == {s[i] : i \in 1..Len(s)}

\* String.prototype.toLowerCase, on one code unit (ASCII letters).
toLowerUnit(c) ==
  IF c \in Units(UpperAZ) THEN LowerAZ[CHOOSE i \in 1..Len(UpperAZ) : UpperAZ[i] = c] ELSE c

toLowerCase(t) == [i \in 1..Len(t) |-> toLowerUnit(t[i])]

\* The regular-expression class \s (the members that occur in chat text).
IsSpace(c) == c \in {" ", "\t", "\n", "\r", "u3000", "u00A0"}

\* The class . (any unit but a line terminator).
IsDot(c) == c \notin {"\n", "\r", "u2028", "u2029"}

IsDigit(c) == c \in Units(Digit09)

\* [0-9a-z] under the i flag.
IsAlnum(c) == toLowerUnit(c) \in (Units(Digit09) \cup Units(LowerAZ))

RECURSIVE trimStart(_)
trimStart(t) == IF t # <<>> /\ IsSpace(Head(t)) THEN trimStart(Tail(t)) ELSE t

RECURSIVE trimEnd(_)
trimEnd(t) ==
  IF t # <<>> /\ IsSpace(t[Len(t)]) THEN trimEnd(SubSeq(t, 1, Len(t) - 1)) ELSE t

\* String.prototype.trim
trim(t) == trimEnd(trimStart(t))

\* w occurs in t at position i (1-based).
StartsAt(t, i, w) ==
  /\ i >= 1
  /\ i + Len(w) - 1 <= Len(t)
  /\ SubSeq(t, i, i + Len(w) - 1) = w

\* String.prototype.includes, for a non-empty w; every string includes "".
includes(t, w) == w = <<>> \/ \E i \in 1..Len(t) : StartsAt(t, i, w)

\* The number of consecutive \s units of t from position i on.
RECURSIVE spanSpace(_, _)
spanSpace(t, i) == IF i <= Len(t) /\ IsSpace(t[i]) THEN 1 + spanSpace(t, i + 1) ELSE 0

\* The length of the first alternative of `words` (in order) that occurs in
\* tt at i, or 0.
WordLenIn(words, tt, i) ==
  LET len(k) == IF k = 0 THEN 0 ELSE Len(words[k])
  IN len(MinOr0({k \in 1..Len(words) : StartsAt(tt, i, words[k])}))

\* The same in t, under the regular expression's i flag when ci.
WordLenAt(words, ci, t, i) == WordLenIn(words, IF ci THEN toLowerCase(t) ELSE t, i)

TestIn(words, tt) == \E i \in 1..Len(tt), k \in 1..Len(words) : StartsAt(tt, i, words[k])

\* RegExp.prototype.test for an alternation of literal words.
TestWords(words, ci, t) == TestIn(words, IF ci THEN toLowerCase(t) ELSE t)

\* src/index.js:769  normalizeText
normalizeText(text) == trim([i \in 1..Len(text) |-> IF text[i] = "u3000" THEN " " ELSE text[i]])

\* t.replace(/\s+/g, " ")
RECURSIVE collapseSpaces(_)
collapseSpaces(t) ==
  IF t = <<>> THEN <<>>
  ELSE IF IsSpace(Head(t))
       THEN <<" ">> \o collapseSpaces(SubSeq(t, 1 + spanSpace(t, 1), Len(t)))
       ELSE <<Head(t)>> \o collapseSpaces(Tail(t))

----------------------------------------------------------------------------
(* Keyword tables: the alternations of the regular expressions of          *)
(* index.js, each in the order the source writes it.                       *)

KwTask == <<<<"u30BF", "u30B9", "u30AF">>, <<"t", "a", "s", "k">>>>
KwProject == <<<<"u30D7", "u30ED", "u30B8", "u30A7", "u30AF", "u30C8">>, <<"p", "r", "o", "j", "e", "c", "t">>>>
KwTaskOrProject == <<<<"u30BF", "u30B9", "u30AF">>, <<"t", "a", "s", "k">>, <<"u30D7", "u30ED", "u30B8", "u30A7", "u30AF", "u30C8">>, <<"p", "r", "o", "j", "e", "c", "t">>>>
KwProjectJa == <<"u30D7", "u30ED", "u30B8", "u30A7", "u30AF", "u30C8">>
KwDelete == <<<<"u524A", "u9664">>, <<"u6D88", "u3057", "u3066">>, <<"u6D88", "u3059">>, <<"u53D6", "u308A", "u6D88", "u3057">>, <<"d", "e", "l", "e", "t", "e">>>>
KwComplete == <<<<"u5B8C", "u4E86">>, <<"u7D42", "u308F", "u3063", "u305F">>, <<"u7D42", "u308F", "u308A", "u307E", "u3057", "u305F">>, <<"u6E08", "u3093", "u3060">>, <<"d", "o", "n", "e">>>>
KwTaskComplete == <<<<"u30BF", "u30B9", "u30AF", "u5B8C", "u4E86">>, <<"u5B8C", "u4E86">>, <<"u7D42", "u308F", "u3063", "u305F">>, <<"u7D42", "u308F", "u308A", "u307E", "u3057", "u305F">>, <<"u6E08", "u3093", "u3060">>, <<"d", "o", "n", "e">>>>
KwReopen == <<<<"u518D", "u958B">>, <<"u672A", "u5B8C", "u4E86">>, <<"u623B", "u3059">>, <<"r", "e", "o", "p", "e", "n">>>>
KwTaskReopen == <<<<"u30BF", "u30B9", "u30AF", "u518D", "u958B">>, <<"u518D", "u958B">>, <<"u672A", "u5B8C", "u4E86">>, <<"u623B", "u3059">>, <<"r", "e", "o", "p", "e", "n">>>>
KwUpdate == <<<<"u5909", "u66F4">>, <<"u66F4", "u65B0">>, <<"u4FEE", "u6B63">>, <<"u7DE8", "u96C6">>>>
KwEdit == <<<<"u7DE8", "u96C6">>, <<"u66F4", "u65B0">>, <<"u5909", "u66F4">>, <<"u4FEE", "u6B63">>>>
KwCreate == <<<<"u8FFD", "u52A0">>, <<"u4F5C", "u6210">>, <<"u767B", "u9332">>, <<"u3064", "u304F", "u308B">>, <<"u4F5C", "u308B">>>>
KwAdd3 == <<<<"u8FFD", "u52A0">>, <<"u4F5C", "u6210">>, <<"u767B", "u9332">>>>
KwList == <<<<"u4E00", "u89A7">>, <<"u898B", "u305B", "u3066">>, <<"u30EA", "u30B9", "u30C8">>, <<"l", "i", "s", "t">>>>
KwParticle == <<<<"u3092">>, <<"u306F">>, <<"u304C">>, <<"u306E">>, <<"u3067", "u3059">>, <<"u3060">>, <<"u3088">>, <<"u306D">>>>
KwCancel == <<<<"u30AD", "u30E3", "u30F3", "u30BB", "u30EB">>, <<"u3084", "u3081", "u308B">>, <<"u4E2D", "u6B62">>>>
KwWake == <<<<"u30DC", "u30C3", "u30C8">>, <<"u307C", "u3063", "u3068">>, <<"u304A", "u30FC", "u3044">>>>
KwWakeInfer == <<<<"u304A", "u30FC", "u3044">>, <<"u30DC", "u30C3", "u30C8">>>>
KwAnyIntent == <<<<"u524A", "u9664">>, <<"u6D88", "u3057", "u3066">>, <<"u6D88", "u3059">>, <<"u53D6", "u308A", "u6D88", "u3057">>, <<"d", "e", "l", "e", "t", "e">>, <<"u5B8C", "u4E86">>, <<"u7D42", "u308F", "u3063", "u305F">>, <<"u7D42", "u308F", "u308A", "u307E", "u3057", "u305F">>, <<"u6E08", "u3093", "u3060">>, <<"d", "o", "n", "e">>, <<"u518D", "u958B">>, <<"u672A", "u5B8C", "u4E86">>, <<"u623B", "u3059">>, <<"r", "e", "o", "p", "e", "n">>, <<"u5909", "u66F4">>, <<"u66F4", "u65B0">>, <<"u4FEE", "u6B63">>, <<"u7DE8", "u96C6">>, <<"u8FFD", "u52A0">>, <<"u4F5C", "u6210">>, <<"u767B", "u9332">>, <<"u3064", "u304F", "u308B">>, <<"u4F5C", "u308B">>, <<"u4E00", "u89A7">>, <<"u898B", "u305B", "u3066">>, <<"u30EA", "u30B9", "u30C8">>, <<"l", "i", "s", "t">>>>
KwActionJa == <<<<"u524A", "u9664">>, <<"u6D88", "u3057", "u3066">>, <<"u6D88", "u3059">>, <<"u53D6", "u308A", "u6D88", "u3057">>, <<"u5B8C", "u4E86">>, <<"u7D42", "u308F", "u3063", "u305F">>, <<"u518D", "u958B">>, <<"u66F4", "u65B0">>, <<"u5909", "u66F4">>, <<"u4FEE", "u6B63">>, <<"u8FFD", "u52A0">>, <<"u4F5C", "u6210">>, <<"u4E00", "u89A7">>>>
KwMove == <<<<"u79FB", "u52D5">>, <<"u7D10", "u4ED8", "u3051">>, <<"u5272", "u308A", "u5F53", "u3066">>, <<"u95A2", "u9023">>>>
KwStatusDone == <<<<"u5B8C", "u4E86">>, <<"d", "o", "n", "e">>, <<"u7D42", "u4E86">>, <<"u7D42", "u308F", "u308A">>>>
KwStatusDoingWords == <<<<"u9032", "u884C">>, <<"u4F5C", "u696D", "u4E2D">>, <<"u7740", "u624B">>, <<"d", "o", "i", "n", "g">>>>
KwStatusOpen == <<<<"u672A", "u7740", "u624B">>, <<"u672A", "u5B8C", "u4E86">>, <<"u518D", "u958B">>, <<"o", "p", "e", "n">>, <<"t", "o", "d", "o">>>>
KwDueLabel == <<<<"u671F", "u9650">>, <<"d", "u", "e">>>>
KwStatusLabel == <<<<"s", "t", "a", "t", "u", "s">>>>
KwField == <<<<"u671F", "u9650">>, <<"u30B9", "u30C6", "u30FC", "u30BF", "u30B9">>, <<"u72B6", "u614B">>>>
KwTaskOrProjectJa == <<<<"u30BF", "u30B9", "u30AF">>, <<"u30D7", "u30ED", "u30B8", "u30A7", "u30AF", "u30C8">>>>
OpenQuotes == Units(<<"u300C", "u300E", "\"", "u201C">>)
CloseQuotes == Units(<<"u300D", "u300F", "\"", "u201D">>)
WakePunct == Units(<<"u3001", ",", "u3002", ".", "!", "uFF01", "?", "uFF1F", ":", "uFF1A">>)
LabelSep == {":", "uFF1A"}
QuerySep == Units(<<"u3001", ",", "uFF0C", "\n">>)

----------------------------------------------------------------------------
(* Regular-expression fragments.  Each operator gives the length of the    *)
(* match of one pattern at position i of t (0: no match there).            *)

\* KAI\s*bot, i flag
KaiBotLenIn(tl, i, j) == IF StartsAt(tl, i, <<"k", "a", "i">>) /\ StartsAt(tl, j, <<"b", "o", "t">>) THEN j + 3 - i ELSE 0

KaiBotLenAt(t, i) == KaiBotLenIn(toLowerCase(t), i, i + 3 + spanSpace(t, i + 3))

\* [@＠]\s*KAI\s*bot, i flag                              src/index.js:162
MentionLenAt(t, i) ==
  LET len(j, n) == IF n > 0 THEN j + n - i ELSE 0
      from(j) == len(j, KaiBotLenAt(t, j))
  IN IF i >= 1 /\ i <= Len(t) /\ t[i] \in {"@", "uFF20"}
     THEN from(i + 1 + spanSpace(t, i + 1))
     ELSE 0

\* (おーい|ボット|@?KAI\s*bot), i flag                    src/index.js:812
BotWordLenAt(t, i) ==
  LET at(n) == IF n > 0 THEN 1 + n ELSE KaiBotLenAt(t, i)
      kai == IF i <= Len(t) /\ t[i] = "@" THEN at(KaiBotLenAt(t, i + 1)) ELSE KaiBotLenAt(t, i)
      word(w) == IF w > 0 THEN w ELSE kai
  IN word(WordLenAt(KwWakeInfer, TRUE, t, i))

\* (を|は|が|の|です|だ|よ|ね)$                            src/index.js:1049
ParticleEndLenAt(t, i) ==
  LET hits == {k \in 1..Len(KwParticle) :
                 StartsAt(t, i, KwParticle[k]) /\ i + Len(KwParticle[k]) - 1 = Len(t)}
  IN IF hits = {} THEN 0 ELSE Len(KwParticle[Min(hits)])

\* (を|は|が|の|です|だ|よ|ね)\s*$                         src/index.js:793
ParticleSpaceEndLenAt(t, i) ==
  LET hits == {k \in 1..Len(KwParticle) :
                 /\ StartsAt(t, i, KwParticle[k])
                 /\ i + Len(KwParticle[k]) + spanSpace(t, i + Len(KwParticle[k])) = Len(t) + 1}
  IN IF hits = {} THEN 0 ELSE Len(t) + 1 - i

\* .+?[」』"”]?に from position s: the position of に, or 0
RelocateClose(t, s) ==
  LET quoted(k) == s + k <= Len(t) /\ t[s + k] \in CloseQuotes /\ StartsAt(t, s + k + 1, <<"u306B">>)
      end(k) == IF k = 0 THEN 0 ELSE IF quoted(k) THEN s + k + 1 ELSE s + k
  IN end(MinOr0({k \in 1..(Len(t) - s + 1) :
                   /\ \A x \in s..(s + k - 1) : IsDot(t[x])
                   /\ StartsAt(t, s + k, <<"u306B">>) \/ quoted(k)}))

\* (を)?\s*プロジェクト[「『"“]?.+?[」』"”]?に, i flag      src/index.js:1195
RelocateLenAt(t, i) ==
  LET \* the position right after プロジェクト, for a choice of (を)?
      after(p) == IF StartsAt(t, p, KwProjectJa) THEN p + Len(KwProjectJa) ELSE 0
      open(a, e) == IF a <= Len(t) /\ t[a] \in OpenQuotes /\ e > 0 THEN e ELSE RelocateClose(t, a)
      body(a) == IF a = 0 THEN 0 ELSE open(a, RelocateClose(t, a + 1))
      len(e1, e0) == IF e1 > 0 THEN e1 - i + 1 ELSE IF e0 > 0 THEN e0 - i + 1 ELSE 0
  IN len(IF i <= Len(t) /\ t[i] = "u3092" THEN body(after(i + 1 + spanSpace(t, i + 1))) ELSE 0,
         body(after(i + spanSpace(t, i))))

\* The patterns handed to String.prototype.replace, by name.
MatchLenAt(p, t, i) ==
  CASE p = "mention"       -> LET pad(n) == IF n > 0 THEN n + spanSpace(t, i + n) ELSE 0
                              IN pad(MentionLenAt(t, i))
    [] p = "bot"           -> BotWordLenAt(t, i)
    [] p = "task"          -> WordLenAt(KwTask, TRUE, t, i)
    [] p = "project"       -> WordLenAt(KwProject, TRUE, t, i)
    [] p = "taskOrProject" -> WordLenAt(KwTaskOrProject, TRUE, t, i)
    [] p = "delete"        -> WordLenAt(KwDelete, TRUE, t, i)
    [] p = "complete"      -> WordLenAt(KwComplete, TRUE, t, i)
    [] p = "reopen"        -> WordLenAt(KwReopen, TRUE, t, i)
    [] p = "create"        -> WordLenAt(KwCreate, FALSE, t, i)
    [] p = "move"          -> WordLenAt(KwMove, FALSE, t, i)
    [] p = "intent"        -> WordLenAt(KwAnyIntent, TRUE, t, i)
    [] p = "particleEnd"   -> ParticleEndLenAt(t, i)
    [] p = "particleSpaceEnd" -> ParticleSpaceEndLenAt(t, i)
    [] p = "relocate"      -> RelocateLenAt(t, i)

\* t.replace(/p/g, rep), scanning from position i.
RECURSIVE replaceFrom(_, _, _, _)
replaceFrom(p, t, i, rep) ==
  LET step(n) == IF n > 0 THEN rep \o replaceFrom(p, t, i + n, rep)
                 ELSE <<t[i]>> \o replaceFrom(p, t, i + 1, rep)
  IN IF i > Len(t) THEN <<>> ELSE step(MatchLenAt(p, t, i))

replaceAll(p, t, rep) == replaceFrom(p, t, 1, rep)

\* The patterns of a list applied one after the other, each match -> " ".
RECURSIVE blankAll(_, _)
blankAll(ps, t) == IF ps = <<>> THEN t ELSE blankAll(Tail(ps), replaceAll(Head(ps), t, <<" ">>))

----------------------------------------------------------------------------
(* Trigger                                          src/index.js:160-176   *)

\* isTriggeredText without the test of what follows the wake word.  C19
\* must tell the two apart.
isTriggeredByWakePrefix(text) ==
  LET t == normalizeText(text)
      n == WordLenAt(KwWake, FALSE, t, 1)
  IN \/ \E i \in 1..Len(t) : MentionLenAt(t, i) > 0
     \/ n > 0

\* src/index.js:160  isTriggeredText
isTriggeredText(text) ==
  LET t == normalizeText(text)
      n == WordLenAt(KwWake, FALSE, t, 1)
  IN \/ \E i \in 1..Len(t) : MentionLenAt(t, i) > 0
     \/ /\ n > 0
        /\ \/ n = Len(t)
           \/ IsSpace(t[n + 1])
           \/ t[n + 1] \in WakePunct

\* ^(?:ボット|ぼっと|おーい)(?:\s|[、,。.!！?？:：])*  ->  " "
RECURSIVE spanWakeTail(_, _)
spanWakeTail(t, i) ==
  IF i <= Len(t) /\ (IsSpace(t[i]) \/ t[i] \in WakePunct) THEN 1 + spanWakeTail(t, i + 1) ELSE 0

stripTriggerPrefix(text) ==
  LET wake(t1) ==
        LET cut(n) == IF n > 0 THEN <<" ">> \o SubSeq(t1, n + 1 + spanWakeTail(t1, n + 1), Len(t1))
                      ELSE t1
        IN cut(WordLenAt(KwWake, TRUE, t1, 1))
  IN trim(collapseSpaces(wake(replaceAll("mention", normalizeText(text), <<" ">>))))

----------------------------------------------------------------------------
(* Query helpers                                    src/index.js:773-852   *)

\* src/index.js:773  extractQueryFromText
extractQueryFromText(text, removePatterns) ==
  LET short(r) == IF Len(r) < 2 THEN <<>> ELSE r
      from(t) == IF t = <<>> THEN <<>>
                 ELSE short(trim(collapseSpaces(blankAll(removePatterns, t))))
  IN from(normalizeText(text))

\* text.split(/[、,，\n]/)
RECURSIVE splitOnSep(_, _)
splitOnSep(t, acc) ==
  IF t = <<>> THEN <<acc>>
  ELSE IF Head(t) \in QuerySep THEN <<acc>> \o splitOnSep(Tail(t), <<>>)
       ELSE splitOnSep(Tail(t), Append(acc, Head(t)))

RECURSIVE dropEmpty(_)
dropEmpty(ss) ==
  IF ss = <<>> THEN <<>>
  ELSE IF Head(ss) = <<>> THEN dropEmpty(Tail(ss)) ELSE <<Head(ss)>> \o dropEmpty(Tail(ss))

\* src/index.js:782  splitQueries
splitQueries(text) ==
  LET parts == splitOnSep(text, <<>>)
  IN dropEmpty([i \in 1..Len(parts) |-> normalizeText(parts[i])])

\* src/index.js:789  sanitizeQuery
sanitizeQuery(text) ==
  LET t == normalizeText(text)
      t1 == IF /\ Len(t) >= 3
               /\ t[1] \in OpenQuotes
               /\ t[Len(t)] \in CloseQuotes
               /\ \A x \in 2..(Len(t) - 1) : IsDot(t[x])
            THEN SubSeq(t, 2, Len(t) - 1) ELSE t
      t2 == replaceAll("particleSpaceEnd", t1, <<>>)
  IN IF t = <<>> THEN <<>> ELSE trim(t2)

\* src/index.js:839  extractQuotedText   /[「『"“](.+?)[」』"”]/
extractQuotedText(text) ==
  LET t == text
      inner(i) == {k \in 1..(Len(t) - i) :
                     /\ \A x \in (i + 1)..(i + k) : IsDot(t[x])
                     /\ i + k + 1 <= Len(t)
                     /\ t[i + k + 1] \in CloseQuotes}
      starts == {i \in 1..Len(t) : t[i] \in OpenQuotes /\ inner(i) # {}}
  IN IF starts = {} THEN <<>>
     ELSE LET i == Min(starts) IN trim(SubSeq(t, i + 1, i + Min(inner(i))))

\* in\s*progress, i flag
InProgressAt(t, i) ==
  LET tl == toLowerCase(t)
  IN StartsAt(tl, i, <<"i", "n">>) /\ StartsAt(tl, i + 2 + spanSpace(t, i + 2), <<"p", "r", "o", "g", "r", "e", "s", "s">>)

\* src/index.js:845  parseStatusFromText
parseStatusFromText(text) ==
  LET t == normalizeText(text)
  IN IF t = <<>> THEN <<>>
     ELSE IF TestWords(KwStatusDone, TRUE, t) THEN <<"d", "o", "n", "e">>
     ELSE IF TestWords(KwStatusDoingWords, TRUE, t) \/ \E i \in 1..Len(t) : InProgressAt(t, i)
          THEN <<"d", "o", "i", "n", "g">>
     ELSE IF TestWords(KwStatusOpen, TRUE, t) THEN <<"o", "p", "e", "n">>
     ELSE <<>>

\* src/index.js:797  inferIntentFromText
inferIntentFromText(text) ==
  LET t == normalizeText(text)
      intent(action, query) ==
        [action |-> action,
         targetType |-> IF TestWords(KwProject, TRUE, t) THEN "project"
                        ELSE IF TestWords(KwTask, TRUE, t) THEN "task" ELSE "",
         query |-> query,
         missingTarget |-> action \in {"delete", "complete", "reopen", "update"} /\ query = <<>>]
  IN intent(IF TestWords(KwDelete, TRUE, t) THEN "delete"
            ELSE IF TestWords(KwComplete, TRUE, t) THEN "complete"
            ELSE IF TestWords(KwReopen, TRUE, t) THEN "reopen"
            ELSE IF TestWords(KwUpdate, FALSE, t) THEN "update"
            ELSE IF TestWords(KwCreate, FALSE, t) THEN "create"
            ELSE IF TestWords(KwList, TRUE, t) THEN "list"
            ELSE "",
            extractQueryFromText(t, <<"bot", "taskOrProject", "intent">>))

----------------------------------------------------------------------------
(* Date and time phrases                            src/index.js:854-948   *)
(* Instants are milliseconds; the clock counts them from RefInstant, the   *)
(* instant 2025-12-20T03:00:00Z, so Date.now() = RefInstant + now.         *)

MsPerDay == 86400000
JstOffsetMs == 32400000
\* days from 1970-01-01 to 2025-12-20, and the milliseconds into that day
RefEpochDay == 20442
RefMsOfDay == 10800000

FloorDiv(a, b) == IF a >= 0 THEN a \div b ELSE -((-a + b - 1) \div b)

\* Days from 1970-01-01 to the civil date y-m-d (proleptic Gregorian).
DaysFromCivil(y, m, d) ==
  LET yy == IF m <= 2 THEN y - 1 ELSE y
      era == FloorDiv(yy, 400)
      yoe == yy - era * 400
      mp == (m + 9) % 12
      doy == (153 * mp + 2) \div 5 + d - 1
      doe == yoe * 365 + yoe \div 4 - yoe \div 100 + doy
  IN era * 146097 + doe - 719468

\* The civil date of a day number.
CivilFromDays(z0) ==
  LET of(era, yoe, doy, mp) ==
        [y |-> yoe + era * 400 + (IF mp < 10 THEN 0 ELSE 1),
         m |-> IF mp < 10 THEN mp + 3 ELSE mp - 9,
         d |-> doy - (153 * mp + 2) \div 5 + 1]
      day(era, yoe, doy) == of(era, yoe, doy, (5 * doy + 2) \div 153)
      year(era, doe, yoe) == day(era, yoe, doe - (365 * yoe + yoe \div 4 - yoe \div 100))
      inEra(era, doe) ==
        year(era, doe, (doe - doe \div 1460 + doe \div 36524 - doe \div 146096) \div 365)
      from(z, era) == inEra(era, z - era * 146097)
  IN from(z0 + 719468, FloorDiv(z0 + 719468, 146097))

\* Date.UTC(y, m - 1, d, hh, mm) as [day number, minute of the day]; fields
\* out of range carry over as Date.UTC carries them.
DateUTC(y, m, d, hh, mm) ==
  LET mi == m - 1
      y1 == y + FloorDiv(mi, 12)
      m1 == mi - 12 * FloorDiv(mi, 12) + 1
      mins == hh * 60 + mm
      day == DaysFromCivil(y1, m1, 1) + (d - 1) + FloorDiv(mins, 1440)
  IN [day |-> day, minute |-> mins - 1440 * FloorDiv(mins, 1440)]

\* src/index.js:854  toJstDate, as [day number, minute of the day]
toJstDate(now) ==
  LET ms == RefMsOfDay + now + JstOffsetMs
  IN [day |-> RefEpochDay + FloorDiv(ms, MsPerDay),
      minute |-> (ms - MsPerDay * FloorDiv(ms, MsPerDay)) \div 60000]

DigitVal(c) == (CHOOSE i \in 1..10 : Digit09[i] = c) - 1

RECURSIVE NumVal(_)
NumVal(ds) == IF ds = <<>> THEN 0 ELSE 10 * NumVal(SubSeq(ds, 1, Len(ds) - 1)) + DigitVal(ds[Len(ds)])

\* String(n).padStart(w, "0")
RECURSIVE NumText(_)
NumText(n) == IF n < 10 THEN <<Digit09[n + 1]>> ELSE NumText(n \div 10) \o <<Digit09[(n % 10) + 1]>>

RECURSIVE padStart(_, _)
padStart(t, w) == IF Len(t) >= w THEN t ELSE padStart(<<"0">> \o t, w)

\* src/index.js:858  formatJst
formatJst(dt) ==
  LET text(c) ==
        NumText(c.y) \o <<"-">> \o padStart(NumText(c.m), 2) \o <<"-">> \o padStart(NumText(c.d), 2)
        \o <<" ">> \o padStart(NumText(dt.minute \div 60), 2) \o <<":">>
        \o padStart(NumText(dt.minute % 60), 2)
  IN text(CivilFromDays(dt.day))

IsDigitAt(t, i) == i >= 1 /\ i <= Len(t) /\ IsDigit(t[i])

\* The ways \d{1,2} can match at i, longest first (the order of a greedy match).
Digits12(t, i) ==
  IF IsDigitAt(t, i) /\ IsDigitAt(t, i + 1) THEN <<2, 1>>
  ELSE IF IsDigitAt(t, i) THEN <<1>> ELSE <<>>

IsDateSep(t, i) == i >= 1 /\ i <= Len(t) /\ t[i] \in {"/", "-"}

None == [ok |-> FALSE]

FirstOk(cands) ==
  LET oks == {k \in 1..Len(cands) : cands[k].ok}
  IN IF oks = {} THEN None ELSE cands[Min(oks)]

\* (\d{1,2})[\/\-](\d{1,2}) at i
MonthDayAt(t, i) ==
  LET ms == Digits12(t, i)
      try(a) == IF IsDateSep(t, i + a) /\ Digits12(t, i + a + 1) # <<>>
                THEN [ok |-> TRUE,
                      m |-> NumVal(SubSeq(t, i, i + a - 1)),
                      d |-> NumVal(SubSeq(t, i + a + 1, i + a + Head(Digits12(t, i + a + 1))))]
                ELSE None
  IN FirstOk([k \in 1..Len(ms) |-> try(ms[k])])

\* (20\d{2})[\/\-](\d{1,2})[\/\-](\d{1,2}) at i
YearMonthDayAt(t, i) ==
  LET ms == Digits12(t, i + 5)
      try(a) == IF IsDateSep(t, i + 5 + a) /\ Digits12(t, i + 6 + a) # <<>>
                THEN [ok |-> TRUE,
                      y |-> NumVal(SubSeq(t, i, i + 3)),
                      m |-> NumVal(SubSeq(t, i + 5, i + 4 + a)),
                      d |-> NumVal(SubSeq(t, i + 6 + a, i + 5 + a + Head(Digits12(t, i + 6 + a))))]
                ELSE None
  IN IF StartsAt(t, i, <<"2", "0">>) /\ IsDigitAt(t, i + 2) /\ IsDigitAt(t, i + 3) /\ IsDateSep(t, i + 4)
     THEN FirstOk([k \in 1..Len(ms) |-> try(ms[k])])
     ELSE None

\* (\d{1,2})\s*月\s*(\d{1,2})\s*日 at i
MonthDayKanjiAt(t, i) ==
  LET ms == Digits12(t, i)
      try(a) ==
        LET p == i + a + spanSpace(t, i + a)
            q == p + 1 + spanSpace(t, p + 1)
            ds == Digits12(t, q)
            day(b) == LET r == q + b + spanSpace(t, q + b)
                      IN IF StartsAt(t, r, <<"u65E5">>)
                         THEN [ok |-> TRUE, m |-> NumVal(SubSeq(t, i, i + a - 1)),
                               d |-> NumVal(SubSeq(t, q, q + b - 1))]
                         ELSE None
        IN IF StartsAt(t, p, <<"u6708">>) THEN FirstOk([k \in 1..Len(ds) |-> day(ds[k])]) ELSE None
  IN FirstOk([k \in 1..Len(ms) |-> try(ms[k])])

\* The leftmost match of a pattern given by its match-at-position operator.
MatchAt(M(_, _), t, i) == IF i = 0 THEN None ELSE M(t, i)

FirstMatch(M(_, _), t) == MatchAt(M, t, MinOr0({i \in 1..Len(t) : M(t, i).ok}))

\* (\d{1,2})[:：](\d{2}) at i
ClockAt(t, i) ==
  LET ms == Digits12(t, i)
      try(a) == IF /\ i + a <= Len(t) /\ t[i + a] \in LabelSep
                   /\ IsDigitAt(t, i + a + 1) /\ IsDigitAt(t, i + a + 2)
                THEN [ok |-> TRUE, hour |-> NumVal(SubSeq(t, i, i + a - 1)),
                      minute |-> NumVal(SubSeq(t, i + a + 1, i + a + 2))]
                ELSE None
  IN FirstOk([k \in 1..Len(ms) |-> try(ms[k])])

\* (\d{1,2})\s*時(?:\s*(\d{1,2})\s*分?)? at i
HourKanjiAt(t, i) ==
  LET ms == Digits12(t, i)
      try(a) ==
        LET p == i + a + spanSpace(t, i + a)
            q == p + 1 + spanSpace(t, p + 1)
            ds == Digits12(t, q)
        IN IF StartsAt(t, p, <<"u6642">>)
           THEN [ok |-> TRUE, hour |-> NumVal(SubSeq(t, i, i + a - 1)),
                 minute |-> IF ds = <<>> THEN 0 ELSE NumVal(SubSeq(t, q, q + Head(ds) - 1))]
           ELSE None
  IN FirstOk([k \in 1..Len(ms) |-> try(ms[k])])

\* parseTimeFromText without the words for noon and tonight.  C18 must tell
\* the two apart.
parseClockFromText(t) ==
  LET clock(m1) == IF m1.ok THEN m1 ELSE FirstMatch(HourKanjiAt, t)
  IN clock(FirstMatch(ClockAt, t))

\* src/index.js:867  parseTimeFromText
parseTimeFromText(t) ==
  LET words == IF includes(t, <<"u6B63", "u5348">>) THEN [ok |-> TRUE, hour |-> 12, minute |-> 0]
               ELSE IF includes(t, <<"u4ECA", "u591C">>) THEN [ok |-> TRUE, hour |-> 21, minute |-> 0]
               ELSE None
      kanji(m2) == IF m2.ok THEN m2 ELSE words
      clock(m1) == IF m1.ok THEN m1 ELSE kanji(FirstMatch(HourKanjiAt, t))
  IN clock(FirstMatch(ClockAt, t))

\* /(20\d{2})/.test(t)
HasYear20(t) == \E i \in 1..Len(t) : StartsAt(t, i, <<"2", "0">>) /\ IsDigitAt(t, i + 2) /\ IsDigitAt(t, i + 3)

\* src/index.js:882  parseDueAtFromText
DateOn(y, md) == [ok |-> TRUE, y |-> y, m |-> md.m, d |-> md.d]

\* 明日 / 明後日 / 今日 / 本日                          src/index.js:915-931
RelativeDate(t, day) ==
  IF includes(t, <<"u660E", "u65E5">>) THEN DateOn(CivilFromDays(day + 1).y, CivilFromDays(day + 1))
  ELSE IF includes(t, <<"u660E", "u5F8C", "u65E5">>) THEN DateOn(CivilFromDays(day + 2).y, CivilFromDays(day + 2))
  ELSE IF includes(t, <<"u4ECA", "u65E5">>) \/ includes(t, <<"u672C", "u65E5">>) THEN DateOn(CivilFromDays(day).y, CivilFromDays(day))
  ELSE None

\* src/index.js:886-931  the date of the phrase, for today's day number
DateFromText(t, day) ==
  LET kanji(mdk) == IF mdk.ok THEN DateOn(CivilFromDays(day).y, mdk) ELSE RelativeDate(t, day)
      slash(md) == IF md.ok THEN DateOn(CivilFromDays(day).y, md)
                   ELSE kanji(FirstMatch(MonthDayKanjiAt, t))
      full(ymd) == IF ymd.ok THEN ymd ELSE slash(FirstMatch(MonthDayAt, t))
  IN full(FirstMatch(YearMonthDayAt, t))

\* src/index.js:935  the time of the phrase, 18:00 when it names none
TimeFromText(t) ==
  LET orSix(tm) == IF tm.ok THEN tm ELSE [ok |-> TRUE, hour |-> 18, minute |-> 0]
  IN orSix(parseTimeFromText(t))

\* src/index.js:936-945  the year rolls over when the date is already past
DueText(date, dueJst, past) ==
  LET next(dueCivil) == DateUTC(date.y + 1, dueCivil.m, dueCivil.d, 0, dueJst.minute)
  IN IF past THEN formatJst(next(CivilFromDays(dueJst.day))) ELSE formatJst(dueJst)

DueOn(t, date, tm, day) ==
  DueText(date, DateUTC(date.y, date.m, date.d, tm.hour, tm.minute),
          ~HasYear20(t) /\ DateUTC(date.y, date.m, date.d, 0, 0).day < day)

DueFrom(t, date, day) == IF ~date.ok THEN <<>> ELSE DueOn(t, date, TimeFromText(t), day)

DueIn(t, day) == IF t = <<>> THEN <<>> ELSE DueFrom(t, DateFromText(t, day), day)

\* src/index.js:882  parseDueAtFromText
parseDueAtFromText(text, now) == DueIn(normalizeText(text), toJstDate(now).day)

----------------------------------------------------------------------------
(* Commands                                                                *)
(* A command is the object the parser stages hand to the executor.  A slot *)
(* the source leaves undefined reads as "" wherever the executor uses it   *)
(* (cmd.x || ""), so every slot is present here and empty by default.      *)

Cmd(action) ==
  [action |-> action, next_action |-> "", target_type |-> "", question |-> <<>>,
   task_id |-> <<>>, project_id |-> <<>>, title |-> <<>>, new_title |-> <<>>,
   description |-> <<>>, due_at |-> <<>>, status |-> <<>>, project_title |-> <<>>,
   query |-> <<>>]

\* null: no stage resolved the utterance
NoCmd == Cmd("")

\* (tsk_[0-9a-z]+_[0-9a-z]+), i flag                      src/index.js:1073
RECURSIVE spanAlnum(_, _)
spanAlnum(t, i) == IF i <= Len(t) /\ IsAlnum(t[i]) THEN 1 + spanAlnum(t, i + 1) ELSE 0

TaskIdAt(t, i) ==
  LET a == spanAlnum(t, i + 4)
      b == spanAlnum(t, i + 5 + a)
  IN IF /\ StartsAt(toLowerCase(t), i, <<"t", "s", "k", "_">>)
        /\ a >= 1
        /\ i + 4 + a <= Len(t) /\ t[i + 4 + a] = "_"
        /\ b >= 1
     THEN [ok |-> TRUE, id |-> SubSeq(t, i, i + 4 + a + b)]
     ELSE None

\* list\s*tasks / list\s*projects, i flag
ListWordAt(t, i, what) ==
  LET tl == toLowerCase(t)
  IN StartsAt(tl, i, <<"l", "i", "s", "t">>) /\ StartsAt(tl, i + 4 + spanSpace(t, i + 4), what)

\* \s*(?:\/|$|\n) from position p on
LabelTailOk(t, p) ==
  \E m \in 0..(Len(t) + 1 - p) :
     /\ \A x \in p..(p + m - 1) : IsSpace(t[x])
     /\ \/ p + m = Len(t) + 1
        \/ t[p + m] \in {"/", "\n"}

\* ([^/\n]+?) followed by the tail, from position s: the capture's length, or 0
LabelCaptureLen(t, s) ==
  MinOr0({k \in 1..(Len(t) + 1 - s) :
            /\ \A x \in s..(s + k - 1) : t[x] \notin {"/", "\n"}
            /\ LabelTailOk(t, s + k)})

RECURSIVE spanLabelSep(_, _)
spanLabelSep(t, i) ==
  IF i <= Len(t) /\ (t[i] \in LabelSep \/ IsSpace(t[i])) THEN 1 + spanLabelSep(t, i + 1) ELSE 0

\* (?:words)[:：\s]+([^/\n]+?)(?:\s*(?:\/|$|\n)), i flag, at i
LabelValue(t, p) == [ok |-> TRUE, val |-> trim(SubSeq(t, p, p + LabelCaptureLen(t, p) - 1))]

LabeledFrom(t, p, r) ==
  LET last(s) == IF s = 0 THEN None ELSE LabelValue(t, p + s)
  IN last(MaxOr({s \in 1..r : LabelCaptureLen(t, p + s) > 0}, 0))

LabeledAt(words, t, i) ==
  LET word(n) == IF n = 0 THEN None ELSE LabeledFrom(t, i + n, spanLabelSep(t, i + n))
  IN word(WordLenAt(words, TRUE, t, i))

Labeled(words, t) ==
  LET at(i) == IF i = 0 THEN None ELSE LabeledAt(words, t, i)
  IN at(MinOr0({i \in 1..Len(t) : LabeledAt(words, t, i).ok}))

\* ([^\s]+?)プロジェクト: the capture of the leftmost match, or ""
BeforeProjectWord(t) ==
  LET len(i) == {k \in 1..(Len(t) - i) :
                   /\ \A x \in i..(i + k - 1) : ~IsSpace(t[x])
                   /\ StartsAt(t, i + k, KwProjectJa)}
      hits == {i \in 1..Len(t) : len(i) # {}}
  IN IF hits = {} THEN <<>>
     ELSE LET i == Min(hits) IN SubSeq(t, i, i + Min(len(i)) - 1)

\* プロジェクト\s*([^\sの/]+?)(?:の|\s|$): the capture of the leftmost match, or ""
RECURSIVE spanProjectName(_, _)
spanProjectName(t, i) ==
  IF i <= Len(t) /\ ~IsSpace(t[i]) /\ t[i] \notin {"u306E", "/"}
  THEN 1 + spanProjectName(t, i + 1) ELSE 0

AfterProjectWord(t) ==
  LET start(i) == i + Len(KwProjectJa) + spanSpace(t, i + Len(KwProjectJa))
      run(i) == spanProjectName(t, start(i))
      ok(i) == /\ StartsAt(t, i, KwProjectJa)
               /\ run(i) >= 1
               /\ \/ start(i) + run(i) = Len(t) + 1
                  \/ t[start(i) + run(i)] # "/"
      hits == {i \in 1..Len(t) : ok(i)}
  IN IF hits = {} THEN <<>>
     ELSE LET i == Min(hits) IN SubSeq(t, start(i), start(i) + run(i) - 1)

\* \s*(?:を)?\s*(追加|作成|登録) from position p on
AddTailFrom(t, q) ==
  \/ WordLenIn(KwAdd3, t, q) > 0
  \/ StartsAt(t, q, <<"u3092">>) /\ WordLenIn(KwAdd3, t, q + 1 + spanSpace(t, q + 1)) > 0

AddTailOk(t, p) == AddTailFrom(t, p + spanSpace(t, p))

\* プロジェクト[「『"“]?(.+?)[」』"”]?\s*(?:の|に)\s*(.+?)\s*(?:を)?\s*(追加|作成|登録)
\* src/index.js:1135, piece by piece from the right.
\* (.+?) then the tail, from s: the capture's length, or 0
TaskCaptureLen(t, s) ==
  MinOr0({k \in 1..(Len(t) + 1 - s) :
            /\ \A x \in s..(s + k - 1) : IsDot(t[x])
            /\ AddTailOk(t, s + k)})

\* \s*(.+?)..., from the position after の|に: the start of capture 2, or 0
TaskCaptureStart(t, p) ==
  LET from(w) == IF w < 0 THEN 0 ELSE p + w
  IN from(MaxOr({w \in 0..spanSpace(t, p) : TaskCaptureLen(t, p + w) > 0}, -1))

\* \s*(?:の|に)..., from q: the start of capture 2, or 0
AfterParticle(t, q) ==
  LET from(w) == IF w < 0 THEN 0 ELSE TaskCaptureStart(t, q + w + 1)
  IN from(MaxOr({w \in 0..spanSpace(t, q) :
                   /\ q + w <= Len(t)
                   /\ t[q + w] \in {"u306E", "u306B"}
                   /\ TaskCaptureStart(t, q + w + 1) > 0}, -1))

\* [」』"”]?\s*(?:の|に)..., from q
AfterProjectName(t, q) ==
  LET quote(s) == IF q <= Len(t) /\ t[q] \in CloseQuotes /\ s > 0 THEN s ELSE AfterParticle(t, q)
  IN quote(AfterParticle(t, q + 1))

\* (.+?)..., from s: its length, or 0
ProjectCaptureLen(t, s) ==
  MinOr0({k \in 1..(Len(t) + 1 - s) :
            /\ \A x \in s..(s + k - 1) : IsDot(t[x])
            /\ AfterProjectName(t, s + k) > 0})

ProjectTaskCaptures(t, s1, k1, s2) ==
  IF k1 > 0
  THEN [ok |-> TRUE, project |-> trim(SubSeq(t, s1, s1 + k1 - 1)),
        title |-> trim(SubSeq(t, s2, s2 + TaskCaptureLen(t, s2) - 1))]
  ELSE None

ProjectTaskFrom(t, s1, k1) == ProjectTaskCaptures(t, s1, k1, AfterProjectName(t, s1 + k1))

\* the match at i: its two captures
ProjectTaskAt(t, i) ==
  LET a == i + Len(KwProjectJa)
      first(s1) == ProjectTaskFrom(t, s1, ProjectCaptureLen(t, s1))
  IN IF StartsAt(t, i, KwProjectJa)
     THEN first(IF a <= Len(t) /\ t[a] \in OpenQuotes /\ ProjectCaptureLen(t, a + 1) > 0
                THEN a + 1 ELSE a)
     ELSE None

\* (?:の)?(?:タスク|プロジェクト)?(?:の)?(?:期限|ステータス|状態) from position p on
FieldTailOk(t, p) ==
  \E a \in {0, 1}, b \in {0, 3, 6}, c \in {0, 1} :
     /\ a = 1 => StartsAt(t, p, <<"u306E">>)
     /\ b = 3 => StartsAt(t, p + a, <<"u30BF", "u30B9", "u30AF">>)
     /\ b = 6 => StartsAt(t, p + a, KwProjectJa)
     /\ c = 1 => StartsAt(t, p + a + b, <<"u306E">>)
     /\ WordLenAt(KwField, FALSE, t, p + a + b + c) > 0

\* (.+?)(?:の)?(?:タスク|プロジェクト)?(?:の)?(?:期限|ステータス|状態): capture 1
UpdateTarget(t) ==
  LET len(i) == {k \in 1..(Len(t) + 1 - i) :
                   /\ \A x \in i..(i + k - 1) : IsDot(t[x])
                   /\ FieldTailOk(t, i + k)}
      hits == {i \in 1..Len(t) : len(i) # {}}
  IN IF hits = {} THEN <<>>
     ELSE LET i == Min(hits) IN trim(SubSeq(t, i, i + Min(len(i)) - 1))

\* プロジェクト[「『"“]?(.+?)[」』"”]?(?:の|に|で|を|$): capture 1 of the leftmost match
ProjectTitlePhrase(t) ==
  LET endOk(q) == q = Len(t) + 1 \/ (q <= Len(t) /\ t[q] \in {"u306E", "u306B", "u3067", "u3092"})
      tail(q) == (q <= Len(t) /\ t[q] \in CloseQuotes /\ endOk(q + 1)) \/ endOk(q)
      cap(s) == LET ks == {k \in 1..(Len(t) + 1 - s) :
                             /\ \A x \in s..(s + k - 1) : IsDot(t[x])
                             /\ tail(s + k)}
                IN IF ks = {} THEN 0 ELSE Min(ks)
      start(i) == LET a == i + Len(KwProjectJa)
                  IN IF a <= Len(t) /\ t[a] \in OpenQuotes /\ cap(a + 1) > 0 THEN a + 1 ELSE a
      hits == {i \in 1..Len(t) : StartsAt(t, i, KwProjectJa) /\ cap(start(i)) > 0}
  IN IF hits = {} THEN None
     ELSE LET s == start(Min(hits)) IN [ok |-> TRUE, val |-> SubSeq(t, s, s + cap(s) - 1)]

\* src/index.js:950  parseProjectTitleFromText
parseProjectTitleFromText(text) ==
  LET t == normalizeText(text)
      phrase(m) == IF m.ok THEN trim(m.val) ELSE trim(BeforeProjectWord(t))
  IN IF t = <<>> THEN <<>> ELSE phrase(ProjectTitlePhrase(t))

----------------------------------------------------------------------------
(* The regex rule table                             src/index.js:1035-1204 *)

\* quoted || t.replace(bot).replace(project).replace(kw).replace(particle$).trim()
ProjectOpTitle(t, quoted, kw) ==
  IF quoted # <<>> THEN quoted
  ELSE trim(blankAll(<<"bot", "project", kw, "particleEnd">>, t))

\* quoted || extractQueryFromText(t, [bot, task, kw, particle$])
TaskOpTitle(t, quoted, kw) ==
  IF quoted # <<>> THEN quoted
  ELSE extractQueryFromText(t, <<"bot", "task", kw, "particleEnd">>)

FirstCmd(cands) ==
  LET oks == {k \in 1..Len(cands) : cands[k].action # ""}
  IN IF oks = {} THEN NoCmd ELSE cands[Min(oks)]

\* src/index.js:1040-1041  list
RuleList(t) ==
  IF includes(t, <<"u30BF", "u30B9", "u30AF", "u4E00", "u89A7">>) \/ \E i \in 1..Len(t) : ListWordAt(t, i, <<"t", "a", "s", "k", "s">>)
  THEN Cmd("list_tasks")
  ELSE IF includes(t, <<"u30D7", "u30ED", "u30B8", "u30A7", "u30AF", "u30C8", "u4E00", "u89A7">>) \/ \E i \in 1..Len(t) : ListWordAt(t, i, <<"p", "r", "o", "j", "e", "c", "t", "s">>)
  THEN Cmd("list_projects")
  ELSE NoCmd

\* src/index.js:1044-1070  project complete / reopen / delete
RuleProjectOp(t, quoted, words, kw, action, status) ==
  LET op(title) == IF title # <<>>
                   THEN [Cmd(action) EXCEPT !.query = title, !.status = status]
                   ELSE NoCmd
  IN IF TestWords(KwProject, TRUE, t) /\ TestWords(words, TRUE, t)
     THEN op(ProjectOpTitle(t, quoted, kw))
     ELSE NoCmd

\* src/index.js:1073-1110  task complete / reopen / delete
RuleTaskOp(t, quoted, words, kw, action) ==
  LET op(mId) == IF mId.ok THEN [Cmd(action) EXCEPT !.task_id = mId.id]
                 ELSE [Cmd(action) EXCEPT !.query = TaskOpTitle(t, quoted, kw)]
  IN IF TestWords(words, TRUE, t) THEN op(FirstMatch(TaskIdAt, t)) ELSE NoCmd

\* the value of a label, or ""
LabelOr(m) == IF m.ok THEN m.val ELSE <<>>

\* src/index.js:1113-1132  create task (label)
RuleLabelTask(t, quoted) ==
  LET task(mTitle) ==
        IF mTitle.ok
        THEN [Cmd("create_task") EXCEPT
                !.title = mTitle.val,
                !.due_at = LabelOr(Labeled(KwDueLabel, t)),
                !.status = LabelOr(Labeled(KwStatusLabel, t)),
                !.project_title =
                   IF ~TestWords(KwProject, TRUE, t) THEN <<>>
                   ELSE IF quoted # <<>> THEN trim(quoted)
                   ELSE IF AfterProjectWord(t) # <<>> THEN trim(AfterProjectWord(t))
                   ELSE trim(BeforeProjectWord(t))]
        ELSE NoCmd
  IN task(Labeled(KwTask, t))

\* src/index.js:1135-1142  create task (natural + project relation)
RuleProjectTask(t) ==
  LET task(m) == IF m.ok
                 THEN [Cmd("create_task") EXCEPT !.title = m.title, !.project_title = m.project]
                 ELSE NoCmd
  IN task(FirstMatch(ProjectTaskAt, t))

\* src/index.js:1145-1155  create project (label)
RuleLabelProject(t) ==
  LET project(pTitle) ==
        IF pTitle.ok
        THEN [Cmd("create_project") EXCEPT
                !.title = pTitle.val,
                !.due_at = LabelOr(Labeled(KwDueLabel, t)),
                !.status = LabelOr(Labeled(KwStatusLabel, t))]
        ELSE NoCmd
  IN project(Labeled(KwProject, t))

\* src/index.js:1158-1168  create project (natural)
RuleNaturalProject(t, quoted) ==
  LET project(title) == IF title # <<>> THEN [Cmd("create_project") EXCEPT !.title = trim(title)]
                        ELSE NoCmd
  IN IF TestWords(KwProject, TRUE, t) /\ TestWords(KwCreate, FALSE, t)
     THEN project(IF quoted # <<>> THEN quoted
                  ELSE IF BeforeProjectWord(t) # <<>> THEN BeforeProjectWord(t)
                  ELSE trim(blankAll(<<"bot", "project", "create">>, t)))
     ELSE NoCmd

\* src/index.js:1171-1187  update task/project (status or due)
RuleUpdate(t, quoted, now) ==
  LET update(target, due, status) ==
        IF target # <<>> \/ due # <<>> \/ status # <<>>
        THEN [Cmd(IF TestWords(KwProject, TRUE, t) THEN "update_project" ELSE "update_task")
                EXCEPT !.query = target, !.due_at = due, !.status = status]
        ELSE NoCmd
  IN IF TestWords(KwEdit, FALSE, t)
     THEN update(IF quoted # <<>> THEN quoted ELSE UpdateTarget(t),
                 parseDueAtFromText(t, now), parseStatusFromText(t))
     ELSE NoCmd

\* src/index.js:1190-1201  move task to project
RuleMove(t) ==
  LET move(target, projectTitle) ==
        IF target # <<>> \/ projectTitle # <<>>
        THEN [Cmd("update_task") EXCEPT !.query = target, !.project_title = projectTitle]
        ELSE NoCmd
  IN IF TestWords(KwMove, FALSE, t) /\ includes(t, KwProjectJa)
     THEN move(extractQueryFromText(t, <<"bot", "task", "relocate", "move">>),
               parseProjectTitleFromText(t))
     ELSE NoCmd

\* the rules in the order the source tries them
Rules(t, quoted, now) ==
  FirstCmd(<<RuleList(t),
             RuleProjectOp(t, quoted, KwComplete, "complete", "update_project", <<"d", "o", "n", "e">>),
             RuleProjectOp(t, quoted, KwReopen, "reopen", "update_project", <<"o", "p", "e", "n">>),
             RuleProjectOp(t, quoted, KwDelete, "delete", "delete_project", <<>>),
             RuleTaskOp(t, quoted, KwTaskComplete, "complete", "complete_task"),
             RuleTaskOp(t, quoted, KwTaskReopen, "reopen", "reopen_task"),
             RuleTaskOp(t, quoted, KwDelete, "delete", "delete_task"),
             RuleLabelTask(t, quoted), RuleProjectTask(t), RuleLabelProject(t),
             RuleNaturalProject(t, quoted), RuleUpdate(t, quoted, now), RuleMove(t)>>)

\* src/index.js:1035  regexQuickParse.  The clock is the default argument
\* of parseDueAtFromText (new Date()).
regexQuickParse(text, now) == Rules(normalizeText(text), extractQuotedText(normalizeText(text)), now)
----------------------------------------------------------------------------
(* The store: the Tasks and Projects sheets         src/index.js:393-690   *)
(* A sheet is the sequence of its data rows below the header; a row is a   *)
(* record of its cells, an empty cell being the empty text.  Space and     *)
(* user identifiers are opaque; every other cell is text.                  *)

\* new Date().toISOString() at clock value now
toISOString(now) ==
  LET ms == RefMsOfDay + now
      c == CivilFromDays(RefEpochDay + FloorDiv(ms, MsPerDay))
      r == ms - MsPerDay * FloorDiv(ms, MsPerDay)
  IN NumText(c.y) \o <<"-">> \o padStart(NumText(c.m), 2) \o <<"-">> \o padStart(NumText(c.d), 2)
     \o <<"T">> \o padStart(NumText(r \div 3600000), 2) \o <<":">>
     \o padStart(NumText((r \div 60000) % 60), 2) \o <<":">>
     \o padStart(NumText((r \div 1000) % 60), 2) \o <<".">>
     \o padStart(NumText(r % 1000), 3) \o <<"Z">>

\* src/index.js:393  makeId.  The time part is the clock value and the random
\* part is the serial number of the row being added; identifiers are fresh
\* because rows are never removed.
makeId(prefix, now, serial) == prefix \o <<"_">> \o NumText(now) \o <<"_">> \o NumText(serial)

\* the first n elements of s
Take(s, n) == SubSeq(s, 1, Min({n, Len(s)}))

\* String(status).toLowerCase() === "deleted"
IsDeleted(r) == toLowerCase(r.status) = <<"d", "e", "l", "e", "t", "e", "d">>

LiveInSpace(spaceId, includeDeleted, r) == r.group_id = spaceId /\ (includeDeleted \/ ~IsDeleted(r))

\* sheetsGetTasksBySpace without the test of the space.  C36 must tell the
\* two apart.
sheetsGetTasksOfAnySpace(rows, spaceId, limit, includeDeleted) ==
  Take(SelectSeq(rows, LAMBDA r : includeDeleted \/ ~IsDeleted(r)), limit)

\* src/index.js:405  sheetsGetTasksBySpace: the first `limit` rows of the
\* space in sheet order, soft-deleted rows skipped unless asked for
sheetsGetTasksBySpace(rows, spaceId, limit, includeDeleted) ==
  Take(SelectSeq(rows, LAMBDA r : LiveInSpace(spaceId, includeDeleted, r)), limit)

\* src/index.js:471  sheetsGetProjectsBySpace
sheetsGetProjectsBySpace(rows, spaceId, limit, includeDeleted) ==
  Take(SelectSeq(rows, LAMBDA r : LiveInSpace(spaceId, includeDeleted, r)), limit)

\* findTasksByQuery without the identifier test: titles only.  C5 must tell
\* the two apart.
findTasksByTitle(rows, spaceId, query, limit) ==
  LET q == normalizeText(query)
      tasks == sheetsGetTasksBySpace(rows, spaceId, limit, FALSE)
      low == toLowerCase(q)
  IN IF q = <<>> THEN <<>>
     ELSE SelectSeq(tasks, LAMBDA t : includes(toLowerCase(t.title), low))

\* src/index.js:460  findTasksByQuery
findTasksByQuery(rows, spaceId, query, limit) ==
  LET q == normalizeText(query)
      tasks == sheetsGetTasksBySpace(rows, spaceId, limit, FALSE)
      ids == SelectSeq(tasks, LAMBDA t : t.task_id = q)
      low == toLowerCase(q)
  IN IF q = <<>> THEN <<>>
     ELSE IF ids # <<>> THEN <<Head(ids)>>
     ELSE SelectSeq(tasks, LAMBDA t : includes(toLowerCase(t.title), low))

\* src/index.js:513  findProjectsByQuery
findProjectsByQuery(rows, spaceId, query, limit) ==
  LET q == normalizeText(query)
      projects == sheetsGetProjectsBySpace(rows, spaceId, limit, FALSE)
      ids == SelectSeq(projects, LAMBDA p : p.project_id = q)
      low == toLowerCase(q)
  IN IF q = <<>> THEN <<>>
     ELSE IF ids # <<>> THEN <<Head(ids)>>
     ELSE SelectSeq(projects, LAMBDA p : includes(toLowerCase(p.title), low))

\* formatTaskMatches without the cut to five lines.  C4 must tell the two
\* apart.
formatEveryTaskMatch(tasks) ==
  [i \in 1..Len(tasks) |->
     [title |-> IF tasks[i].title = <<>> THEN <<"(", "n", "o", " ", "t", "i", "t", "l", "e", ")">> ELSE tasks[i].title,
      id |-> tasks[i].task_id]]

\* src/index.js:1251  formatTaskMatches: one line per candidate, title and
\* identifier, the first five only
formatTaskMatches(tasks) ==
  [i \in 1..Len(Take(tasks, 5)) |->
     [title |-> IF tasks[i].title = <<>> THEN <<"(", "n", "o", " ", "t", "i", "t", "l", "e", ")">> ELSE tasks[i].title,
      id |-> tasks[i].task_id]]

\* src/index.js:1258  formatProjectMatches
formatProjectMatches(projects) ==
  [i \in 1..Len(Take(projects, 5)) |->
     [title |-> IF projects[i].title = <<>> THEN <<"(", "n", "o", " ", "t", "i", "t", "l", "e", ")">> ELSE projects[i].title,
      id |-> projects[i].project_id]]

\* x || "open"
OrOpen(status) == IF status = <<>> THEN <<"o", "p", "e", "n">> ELSE status

\* src/index.js:548  sheetsAppendTask: the row it builds
TaskRow(id, spaceId, project_id, title, description, status, due_at, created_by, now) ==
  [task_id |-> id, group_id |-> spaceId, project_id |-> project_id, title |-> title,
   description |-> description, status |-> OrOpen(status), due_at |-> due_at,
   created_at |-> toISOString(now), done_at |-> <<>>, created_by |-> created_by,
   updated_at |-> toISOString(now), deleted_at |-> <<>>]

sheetsAppendTask(rows, spaceId, project_id, title, description, status, due_at, created_by, now) ==
  Append(rows, TaskRow(makeId(<<"t", "s", "k">>, now, Len(rows) + 1), spaceId, project_id, title,
                       description, status, due_at, created_by, now))

\* src/index.js:524  sheetsAppendProject: the row it builds
ProjectRow(id, spaceId, title, description, status, due_at, created_by, now) ==
  [project_id |-> id, group_id |-> spaceId, title |-> title, description |-> description,
   status |-> OrOpen(status), due_at |-> due_at, created_at |-> toISOString(now),
   created_by |-> created_by, updated_at |-> <<>>, deleted_at |-> <<>>]

sheetsAppendProject(rows, spaceId, title, description, status, due_at, created_by, now) ==
  Append(rows, ProjectRow(makeId(<<"p", "r", "j">>, now, Len(rows) + 1), spaceId, title, description,
                          status, due_at, created_by, now))

\* src/index.js:574  sheetsFindRowById: the first row holding the identifier
\* in its first column, 0 when there is none
sheetsFindRowById(rows, kind, id) ==
  LET hits == {i \in 1..Len(rows) : (IF kind = "task" THEN rows[i].task_id ELSE rows[i].project_id) = id}
  IN IF hits = {} THEN 0 ELSE Min(hits)

\* the header row of the Tasks sheet: the columns in the order the store's
\* schema lists them, group_id being its space_id
\* src/scripts/migrate_sheets_to_db.js:80-93
TaskHeader ==
  <<"task_id", "group_id", "project_id", "title", "description", "status", "due_at",
    "created_at", "done_at", "created_by", "updated_at", "deleted_at">>

\* the header row of the Projects sheet  src/scripts/migrate_sheets_to_db.js:66-77
ProjectHeader ==
  <<"project_id", "group_id", "title", "description", "status", "due_at", "created_at",
    "created_by", "updated_at", "deleted_at">>

HeaderOf(kind) == IF kind = "task" THEN TaskHeader ELSE ProjectHeader

\* src/index.js:379  headerIndex: the column of a field, the first being 1
headerIndex(header, f) == CHOOSE i \in 1..Len(header) : header[i] = f

\* the cell of column i of a row is empty
EmptyCell(header, row, i) ==
  IF header[i] \in {"group_id", "created_by"} THEN row[header[i]] = "" ELSE row[header[i]] = <<>>

\* src/index.js:605-609  the array values.get answers with for one row: the
\* cells up to the last one that is not empty.  Its length.
RowCells(header, row) == MaxOr({i \in 1..Len(header) : ~EmptyCell(header, row, i)}, 0)

\* src/index.js:621-624  setCell: the array grows to hold the cell set.  Its
\* length after the cells of the fields named were set.
CellsSet(header, cells, fields) ==
  Max({cells} \cup {headerIndex(header, f) : f \in fields})

\* src/index.js:636-641  values.update with an array of so many cells: the
\* row of the sheet takes these cells, and keeps its cells beyond them
RowUpdated(header, stored, row, cells) ==
  [f \in DOMAIN stored |-> IF headerIndex(header, f) <= cells THEN row[f] ELSE stored[f]]

\* A patch is the object handed to sheetsUpdateTask / sheetsUpdateProject:
\* a function from the names of the fields it carries to their new texts.
NoPatch == [f \in {} |-> <<>>]

PatchWith(patch, field, v) == [f \in DOMAIN patch \cup {field} |-> IF f = field THEN v ELSE patch[f]]

\* src/index.js:626-634  the cells sheetsUpdateTask sets on the row it read
TaskPatchFields == {"title", "description", "status", "due_at", "done_at", "project_id", "deleted_at"}

\* sheetsUpdateTask were it to stamp done_at whenever the patch carries a
\* status.  C30 must tell the two apart.
ApplyTaskPatchStamping(row, patch, now) ==
  [f \in DOMAIN row |->
     IF f = "updated_at" THEN toISOString(now)
     ELSE IF f = "done_at" /\ "status" \in DOMAIN patch THEN toISOString(now)
     ELSE IF f \in DOMAIN patch /\ f \in TaskPatchFields THEN patch[f]
     ELSE row[f]]

ApplyTaskPatch(row, patch, now) ==
  [f \in DOMAIN row |->
     IF f = "updated_at" THEN toISOString(now)
     ELSE IF f \in DOMAIN patch /\ f \in TaskPatchFields THEN patch[f]
     ELSE row[f]]

\* src/index.js:676-682  the cells sheetsUpdateProject sets
ProjectPatchFields == {"title", "description", "status", "due_at", "deleted_at"}

ApplyProjectPatch(row, patch, now) ==
  [f \in DOMAIN row |->
     IF f = "updated_at" THEN toISOString(now)
     ELSE IF f \in DOMAIN patch /\ f \in ProjectPatchFields THEN patch[f]
     ELSE row[f]]

----------------------------------------------------------------------------
(* Pending actions                                  src/index.js:181-205   *)
(* _pendingBySpace is a Map from space identifier to one entry.            *)

TtlMs == 300000

\* null
NoPending == [action |-> "", userId |-> "", expiresAt |-> 0]

\* PendingRead with the expiry test made non-strict: the entry is already
\* gone at its expiry instant.  C3 must tell the two apart.
PendingReadUntilExpiry(map, spaceId, userId, now) ==
  IF spaceId \notin DOMAIN map THEN NoPending
  ELSE IF now >= map[spaceId].expiresAt THEN NoPending
  ELSE IF map[spaceId].userId # "" /\ userId # "" /\ map[spaceId].userId # userId THEN NoPending
  ELSE map[spaceId]

\* The entry a read returns                          src/index.js:182-192
PendingRead(map, spaceId, userId, now) ==
  IF spaceId \notin DOMAIN map THEN NoPending
  ELSE IF now > map[spaceId].expiresAt THEN NoPending
  ELSE IF map[spaceId].userId # "" /\ userId # "" /\ map[spaceId].userId # userId THEN NoPending
  ELSE map[spaceId]

\* getPending were a read to renew the entry it returns.  C39 must tell the
\* two apart.
getPendingRenewing(map, spaceId, userId, now) ==
  [entry |-> PendingRead(map, spaceId, userId, now),
   map |-> IF spaceId \in DOMAIN map /\ now > map[spaceId].expiresAt
           THEN [s \in DOMAIN map \ {spaceId} |-> map[s]]
           ELSE IF PendingRead(map, spaceId, userId, now) # NoPending
           THEN [map EXCEPT ![spaceId].expiresAt = now + TtlMs]
           ELSE map]

\* src/index.js:182  getPending: the entry returned and the map it leaves
getPending(map, spaceId, userId, now) ==
  [entry |-> PendingRead(map, spaceId, userId, now),
   map |-> IF spaceId \in DOMAIN map /\ now > map[spaceId].expiresAt
           THEN [s \in DOMAIN map \ {spaceId} |-> map[s]]
           ELSE map]

\* src/index.js:194  setPending
setPending(map, spaceId, userId, action, now) ==
  [s \in DOMAIN map \cup {spaceId} |->
     IF s = spaceId THEN [action |-> action, userId |-> userId, expiresAt |-> now + TtlMs]
     ELSE map[s]]

\* clearPending without the test of the user: whoever clears, the entry goes.
\* C11 must tell the two apart.
clearPendingOfAnyone(map, spaceId, userId) ==
  IF spaceId \notin DOMAIN map THEN map
  ELSE [s \in DOMAIN map \ {spaceId} |-> map[s]]

\* src/index.js:199  clearPending
clearPending(map, spaceId, userId) ==
  IF spaceId \notin DOMAIN map THEN map
  ELSE IF map[spaceId].userId # "" /\ userId # "" /\ map[spaceId].userId # userId THEN map
  ELSE [s \in DOMAIN map \ {spaceId} |-> map[s]]
----------------------------------------------------------------------------
(* Learned templates                                src/index.js:963-1033  *)
(* The Templates sheet is the sequence of its data rows; _templateCache is *)
(* [loaded, data, expMs], loaded being FALSE while data is null.           *)

TemplateTtlMs == 60000

\* the white space String.prototype.trim removes from a word of a cell
WordSpace == {" ", "\t", "\n", "\r", "\f"}

RECURSIVE trimWordStart(_)
trimWordStart(w) == IF Len(w) > 0 /\ Head(w) \in WordSpace THEN trimWordStart(Tail(w)) ELSE w

RECURSIVE trimWordEnd(_)
trimWordEnd(w) ==
  IF Len(w) > 0 /\ SubSeq(w, Len(w), Len(w)) \in WordSpace
  THEN trimWordEnd(SubSeq(w, 1, Len(w) - 1)) ELSE w

\* src/index.js:980-981  String(cell).trim() on the action and target_type
\* cells, which hold words
trimWord(w) == trimWordEnd(trimWordStart(w))

\* src/index.js:978-986  a sheet row as loadTemplates reads it
TemplateLoaded(r) ==
  [text |-> trim(r.text), action |-> trimWord(r.action), target_type |-> trimWord(r.target_type),
   query |-> trim(r.query), project_title |-> trim(r.project_title),
   status |-> trim(r.status), due_at |-> trim(r.due_at)]

\* src/index.js:977-987  the rows loadTemplates keeps
TemplateData(sheet) ==
  SelectSeq([i \in 1..Len(sheet) |-> TemplateLoaded(sheet[i])],
            LAMBDA r : r.text # <<>> /\ r.action # "")

\* src/index.js:989-990  loadTemplates: the rows returned and the cache it leaves
TemplatesLoaded(data, now) ==
  [data |-> data, cache |-> [loaded |-> TRUE, data |-> data, expMs |-> now + TemplateTtlMs]]

TemplateHits(data, key) == {i \in 1..Len(data) : toLowerCase(data[i].text) = toLowerCase(key)}

\* src/index.js:996  matchTemplate, on the rows loadTemplates returned
TemplateCmd(hit) ==
  [Cmd(hit.action) EXCEPT !.target_type = hit.target_type, !.query = hit.query,
                          !.project_title = hit.project_title, !.status = hit.status,
                          !.due_at = hit.due_at]

matchTemplate(data, text) ==
  LET first(n) == IF n = 0 THEN NoCmd ELSE TemplateCmd(data[n])
      find(key) == IF key = <<>> THEN NoCmd ELSE first(MinOr0(TemplateHits(data, key)))
  IN find(toLowerCase(normalizeText(text)))

\* src/index.js:1012-1016  whether recordTemplate goes on to append a row
recordTemplate(data, text, cmd) ==
  LET key == normalizeText(text)
  IN key # <<>> /\ cmd.action # "" /\ TemplateHits(data, key) = {}

\* src/index.js:1019-1028  the row recordTemplate appends
TemplateRow(text, cmd, now) ==
  [text |-> normalizeText(text), action |-> cmd.action, target_type |-> cmd.target_type,
   query |-> IF cmd.query # <<>> THEN cmd.query ELSE cmd.title,
   project_title |-> cmd.project_title, status |-> cmd.status, due_at |-> cmd.due_at,
   created_at |-> toISOString(now)]

----------------------------------------------------------------------------
(* Parsing an utterance into a command              src/index.js:1206-1249 *)
(* The model's reply is an input: a command object, or NoCmd when the call *)
(* or the decoding of its answer fails.                                    *)

\* if (due) cmd.due_at = due
WithDue(cmd, text, now) ==
  LET set(due) == IF due # <<>> THEN [cmd EXCEPT !.due_at = due] ELSE cmd
  IN set(parseDueAtFromText(text, now))

\* src/index.js:1237-1240  the project name guessed for a reply without one
WithGuessedProject(cmd, stripped) ==
  LET set(guessed) == IF guessed # <<>> THEN [cmd EXCEPT !.project_title = guessed] ELSE cmd
  IN IF cmd.project_title = <<>> /\ TestWords(KwProject, TRUE, stripped)
     THEN set(IF extractQuotedText(stripped) # <<>> THEN extractQuotedText(stripped)
              ELSE parseProjectTitleFromText(stripped))
     ELSE cmd

\* What the call of the model gave: a failure before an answer was read (no
\* project id, no token, a transport error, a status that is not ok), an
\* answer that is not JSON, the JSON value null, or a JSON object, which is
\* a function from the keys it holds to their values.
NoObject == [s \in {} |-> <<>>]

Answer(kind, obj) == [kind |-> kind, obj |-> obj]

\* src/index.js:755-767  what vertexGenerateJson returns for an answer it
\* could read: the parsed object, {action: "unknown"} when JSON.parse throws
vertexGenerateJson(answer) ==
  IF answer.kind = "notjson" THEN ("action" :> "unknown") ELSE answer.obj

\* src/index.js:1221-1235  the object's keys normalised into a command
FromObject(obj) ==
  [s \in DOMAIN Cmd("") |->
     IF s = "action"
     THEN IF "action" \in DOMAIN obj /\ obj.action # "" THEN obj.action ELSE "unknown"
     ELSE IF s \in DOMAIN obj THEN obj[s] ELSE Cmd("")[s]]

\* src/index.js:1218-1247  the try block as the reply the parser goes on
\* with: the catch (NoCmd) when the call threw or obj.action was read of null
ReplyOf(answer) ==
  IF answer.kind \in {"error", "null"} THEN NoCmd ELSE FromObject(vertexGenerateJson(answer))

\* the keys of the object the try block or its catch returns
FallbackKeys(answer) ==
  IF answer.kind \in {"error", "null"} THEN {"action"} ELSE DOMAIN Cmd("")

\* src/index.js:1211-1248  after the rule table answered quick
ParsedOr(quick, stripped, now, reply) ==
  IF quick = NoCmd /\ reply = NoCmd THEN Cmd("unknown")
  ELSE WithDue(IF quick # NoCmd THEN quick ELSE WithGuessedProject(reply, stripped),
               stripped, now)

ParsedFrom(stripped, now, reply) ==
  IF stripped = <<>> THEN Cmd("help")
  ELSE ParsedOr(regexQuickParse(stripped, now), stripped, now, reply)

\* src/index.js:1206  parseCommandFromText
parseCommandFromText(text, now, reply) == ParsedFrom(stripTriggerPrefix(text), now, reply)

\* src/index.js:1574-1580, 1969-1975  the fast path: a template, else the
\* rule table, with the due date read from the utterance
FastOr(templ, stripped, now) == IF templ # NoCmd THEN templ ELSE regexQuickParse(stripped, now)

FastDue(fast, stripped, now) == IF fast # NoCmd THEN WithDue(fast, stripped, now) ELSE NoCmd

FastCommand(data, stripped, now) ==
  FastDue(FastOr(matchTemplate(data, stripped), stripped, now), stripped, now)
----------------------------------------------------------------------------
(* One run of a request handler                     src/index.js:1311-2134 *)
(* A handler is an async function: it runs from one await to the next      *)
(* without interruption, and other handlers run in between.  Its record    *)
(* holds the request, its local variables and pc, the await it is at.      *)

NoDraft ==
  [title |-> <<>>, description |-> <<>>, status |-> <<>>, due_at |-> <<>>, project_id |-> <<>>]

Idle ==
  [pc |-> "idle", platform |-> "", spaceId |-> "", userId |-> "", text |-> <<>>,
   stripped |-> <<>>, at |-> 0, asked |-> FALSE, had |-> NoPending, pending |-> NoPending,
   route |-> "", cmd |-> NoCmd, op |-> "", kind |-> "", mode |-> "", items |-> <<>>,
   patch |-> NoPatch, draft |-> NoDraft, looked |-> FALSE, query |-> <<>>, found |-> <<>>,
   target |-> <<>>, title |-> <<>>, rowNumber |-> 0, row |-> <<>>, cells |-> 0, deleted |-> <<>>,
   arm |-> "", keys |-> {}, response |-> "", rest |-> <<>>, out |-> <<>>,
   snapshot |-> <<>>, loadAt |-> 0, stampAt |-> 0, appended |-> FALSE]

\* a message sent to the chat: what it says and the lines it lists
Say(h, tag, body) == [h EXCEPT !.out = Append(@, [tag |-> tag, body |-> body])]

\* the handler returns (continue / return)
Done(h) == [h EXCEPT !.pc = "done"]

Line(title) == <<[title |-> title, id |-> <<>>]>>

\* A request: whether its signature verifies, and the text message events
\* of its body (LINE) or its interaction (Discord), in order.
Request(signed, type, events) == [signed |-> signed, type |-> type, events |-> events]

\* src/index.js:1328  for (const event of events): the handler turns to the
\* next event of the batch, or returns when there is none.  response is the
\* HTTP response already sent; out holds the messages sent so far.
TakeEvent(h, events) ==
  IF events = <<>> THEN Done([h EXCEPT !.rest = <<>>])
  ELSE [Idle EXCEPT !.pc = "received", !.platform = h.platform,
                    !.spaceId = Head(events).spaceId, !.userId = Head(events).userId,
                    !.text = Head(events).text, !.rest = Tail(events),
                    !.response = h.response, !.out = h.out]

\* LineAccepted when the 200 is not sent before the events are handled.
\* C26 must tell the two apart.
LineAcceptedUnanswered(req) ==
  IF ~req.signed THEN Done([Idle EXCEPT !.platform = "line", !.response = "401"])
  ELSE TakeEvent([Idle EXCEPT !.platform = "line"], req.events)

\* src/index.js:1311-1328  POST /line/webhook up to the loop: 401 for a bad
\* signature, else 200 at once and then the events
LineAccepted(req) ==
  IF ~req.signed THEN Done([Idle EXCEPT !.platform = "line", !.response = "401"])
  ELSE TakeEvent([Idle EXCEPT !.platform = "line", !.response = "200"], req.events)

\* src/index.js:1920-1946  POST /discord/interactions up to the deferred
\* response: 401 for a bad signature, the pong for a ping, a final message
\* when the user or the channel is missing, else the deferred response
DiscordAccepted(req) ==
  IF ~req.signed THEN Done([Idle EXCEPT !.platform = "discord", !.response = "401"])
  ELSE IF req.type = "ping" THEN Done([Idle EXCEPT !.platform = "discord", !.response = "pong"])
  ELSE IF Head(req.events).userId = "" \/ Head(req.events).spaceId = ""
  THEN Done([Idle EXCEPT !.platform = "discord", !.response = "no_user"])
  ELSE TakeEvent([Idle EXCEPT !.platform = "discord", !.response = "deferred"], req.events)

\* /^(キャンセル|やめる|中止)$/i
IsCancel(t) == \E i \in 1..Len(KwCancel) : toLowerCase(t) = toLowerCase(KwCancel[i])

\* /(削除|消して|消す|取り消し|完了|終わった|再開|更新|変更|修正|追加|作成|一覧)/
hasActionKeyword(stripped) == TestWords(KwActionJa, FALSE, stripped)

\* a || b || c
Or3(a, b, c) == IF a # <<>> THEN a ELSE IF b # <<>> THEN b ELSE c

\* splitQueries(q).map(sanitizeQuery).filter(Boolean)
DeleteItems(q) ==
  LET parts == splitQueries(q)
  IN dropEmpty([i \in 1..Len(parts) |-> sanitizeQuery(parts[i])])

\* the slot-filling step of a pending delete: look the follow-up text up
FollowDelete(h, kind, followText) ==
  [h EXCEPT !.route = "slot", !.op = "delete", !.kind = kind, !.mode = "pending",
            !.items = <<sanitizeQuery(followText)>>, !.pc = "find"]

\* the slot-filling step of a pending create: the follow-up text is the title
FollowCreate(h, kind, followText) ==
  IF followText = <<>>
  THEN Done(Say([h EXCEPT !.route = "slot"], "need_title", <<>>))
  ELSE [h EXCEPT !.route = "slot", !.op = "create", !.kind = kind, !.mode = "pending",
                 !.draft = [NoDraft EXCEPT !.title = followText, !.status = <<"o", "p", "e", "n">>],
                 !.pc = "build"]

\* what a handler notes when it starts: the instant, the stripped text,
\* whether it reads the pending table, the entry stored and the entry read
Started(h0, map0, now, stripped, reads, pending) ==
  [h0 EXCEPT !.at = now, !.stripped = stripped, !.asked = reads,
             !.had = IF reads /\ h0.spaceId \in DOMAIN map0 THEN map0[h0.spaceId] ELSE NoPending,
             !.pending = IF reads THEN pending ELSE NoPending]

Routed(h, map) == [h |-> h, map |-> map]

\* the confirmation without the clearPending before it.  C12 must tell the
\* two apart.
CancelledKeeping(h, map) ==
  Routed(Done(Say([h EXCEPT !.route = "cancel"], "cancelled", <<>>)), map)

\* src/index.js:213-217, 1416-1420, 1478-1482  the answer was a cancel word
Cancelled(h, map) ==
  Routed(Done(Say([h EXCEPT !.route = "cancel"], "cancelled", <<>>)),
         clearPending(map, h.spaceId, h.userId))

\* LineUntriggered when a message nobody waits for is answered.  C20 must
\* tell the two apart.
LineUntriggeredAnswering(h, map, pending, followText) ==
  IF pending = NoPending THEN Routed(Done(Say([h EXCEPT !.route = "ignored"], "unknown", <<>>)), map)
  ELSE IF IsCancel(followText) THEN Cancelled(h, map)
  ELSE IF pending.action = "delete_task" THEN Routed(FollowDelete(h, "task", followText), map)
  ELSE IF pending.action = "delete_project"
  THEN Routed(FollowDelete(h, "project", followText), map)
  ELSE Routed(Done([h EXCEPT !.route = "ignored"]), map)

\* src/index.js:1411-1463  a LINE message without the trigger
LineUntriggered(h, map, pending, followText) ==
  IF pending = NoPending THEN Routed(Done([h EXCEPT !.route = "ignored"]), map)
  ELSE IF IsCancel(followText) THEN Cancelled(h, map)
  ELSE IF pending.action = "delete_task" THEN Routed(FollowDelete(h, "task", followText), map)
  ELSE IF pending.action = "delete_project"
  THEN Routed(FollowDelete(h, "project", followText), map)
  ELSE Routed(Done([h EXCEPT !.route = "ignored"]), map)

\* src/index.js:1563-1568  a LINE message taken as a command: the sender's
\* entry is cleared when the event names a space and a user, and without a
\* space the handler stops with its reply
Commanded(h, map) ==
  IF h.spaceId = "" THEN Routed(Done(Say([h EXCEPT !.route = "command"], "no_space", <<>>)), map)
  ELSE Routed([h EXCEPT !.route = "command", !.pc = "parse"],
              IF h.userId # "" THEN clearPending(map, h.spaceId, h.userId) ELSE map)

\* src/index.js:1472-1571  a LINE message with the trigger and a text
LineTriggered(h, map, pending, followText) ==
  IF pending = NoPending \/ hasActionKeyword(h.stripped) THEN Commanded(h, map)
  ELSE IF IsCancel(followText) THEN Cancelled(h, map)
  ELSE IF pending.action = "create_task" THEN Routed(FollowCreate(h, "task", followText), map)
  ELSE IF pending.action = "create_project"
  THEN Routed(FollowCreate(h, "project", followText), map)
  ELSE IF pending.action = "delete_task" THEN Routed(FollowDelete(h, "task", followText), map)
  ELSE IF pending.action = "delete_project"
  THEN Routed(FollowDelete(h, "project", followText), map)
  ELSE Commanded(h, map)

LineRoutedAs(h0, map0, now, triggered, stripped, reads, g) ==
  IF ~triggered
  THEN LineUntriggered(Started(h0, map0, now, stripped, reads, g.entry), g.map, g.entry,
                       normalizeText(h0.text))
  ELSE IF stripped = <<>>
  THEN Routed(Done(Say([Started(h0, map0, now, stripped, FALSE, NoPending)
                          EXCEPT !.route = "menu"], "menu", <<>>)), map0)
  ELSE LineTriggered(Started(h0, map0, now, stripped, reads, g.entry), g.map, g.entry,
                     normalizeText(stripped))

\* src/index.js:1412, 1472  getPending is called for an event that names a
\* space and a user, and for no other
PendingOf(map0, spaceId, userId, now) ==
  IF spaceId # "" /\ userId # "" THEN getPending(map0, spaceId, userId, now)
  ELSE [entry |-> NoPending, map |-> map0]

\* src/index.js:1404-1568  a LINE text message up to its first await: the
\* handler and the pending map it leaves
LineRouted(h0, map0, now) ==
  LineRoutedAs(h0, map0, now, isTriggeredText(h0.text), stripTriggerPrefix(h0.text),
               h0.spaceId # "" /\ h0.userId # "",
               PendingOf(map0, h0.spaceId, h0.userId, now))

\* src/index.js:207-297, 1963-1967  handlePendingText, then the empty-text check
DiscordFollowed(h, map, pending, followText) ==
  IF pending # NoPending /\ IsCancel(followText) THEN Cancelled(h, map)
  ELSE IF pending.action = "create_task" THEN Routed(FollowCreate(h, "task", followText), map)
  ELSE IF pending.action = "create_project"
  THEN Routed(FollowCreate(h, "project", followText), map)
  ELSE IF pending.action = "delete_task" THEN Routed(FollowDelete(h, "task", followText), map)
  ELSE IF pending.action = "delete_project"
  THEN Routed(FollowDelete(h, "project", followText), map)
  ELSE IF followText = <<>>
  THEN Routed(Done(Say([h EXCEPT !.route = "command"], "need_text", <<>>)), map)
  ELSE Routed([h EXCEPT !.route = "command", !.pc = "parse"], map)

DiscordRoutedAs(h0, map0, now, followText, g) ==
  DiscordFollowed(Started(h0, map0, now, followText, TRUE, g.entry), g.map, g.entry, followText)

\* src/index.js:1948-1967  a Discord interaction up to its first await
DiscordRouted(h0, map0, now) ==
  DiscordRoutedAs(h0, map0, now, normalizeText(h0.text),
                  getPending(map0, h0.spaceId, h0.userId, now))
----------------------------------------------------------------------------
(* Executing a command                    src/index.js:1587-1900, 1982-2133 *)

\* the patch update_task / update_project builds from the command's slots
UpdatePatch(cmd, fields) ==
  LET slot(f) == IF f = "title" THEN cmd.new_title ELSE cmd[f]
      set == {f \in fields : slot(f) # <<>>}
  IN [f \in set |-> slot(f)]

\* src/index.js:1729-1738  update_task once its patch is complete
UpdateChecks(h) ==
  LET q == Or3(h.cmd.task_id, h.cmd.query, h.cmd.title)
  IN IF q = <<>> THEN Done(Say(h, "need_target", <<>>))
     ELSE IF DOMAIN h.patch = {} THEN Done(Say(h, "nothing_to_update", <<>>))
     ELSE [h EXCEPT !.items = <<q>>, !.pc = "find"]

\* a delete command or a delete intent without a target asks which one
AskWhich(h, action) == [Say(h, "ask", <<>>) EXCEPT !.arm = action, !.pc = "arm"]

\* OnUnknown were the inferred intent carried out: a create with a name
\* appends the row.  C32 must tell the two apart.
OnUnknownExecuting(h) ==
  LET intent == inferIntentFromText(h.stripped)
  IN IF intent.action = "create" /\ intent.query # <<>>
     THEN [h EXCEPT !.op = "create", !.kind = IF intent.targetType = "project" THEN "project" ELSE "task",
                    !.mode = "single",
                    !.draft = [title |-> intent.query, description |-> <<>>, status |-> <<"o", "p", "e", "n">>,
                               due_at |-> <<>>, project_id |-> <<>>],
                    !.pc = "build"]
     ELSE Done(Say(h, "unknown", <<>>))

\* src/index.js:1598-1614, 1990-2004  the unknown command: infer the intent
OnUnknown(h) ==
  LET intent == inferIntentFromText(h.stripped)
  IN IF intent.action = "delete" /\ intent.targetType # "" /\ intent.missingTarget
     THEN AskWhich(h, IF intent.targetType = "project" THEN "delete_project" ELSE "delete_task")
     ELSE IF intent.action = "create" /\ intent.targetType # ""
     THEN AskWhich(h, IF intent.targetType = "project" THEN "create_project" ELSE "create_task")
     ELSE Done(Say(h, "unknown", <<>>))

\* complete_task / reopen_task
OnSingle(h, op) ==
  LET q == Or3(h.cmd.task_id, h.cmd.query, h.cmd.title)
  IN IF q = <<>> THEN Done(Say(h, "need_target", <<>>))
     ELSE [h EXCEPT !.op = op, !.kind = "task", !.mode = "single",
                    !.items = <<IF h.platform = "discord" THEN sanitizeQuery(q) ELSE q>>,
                    !.pc = "find"]

\* delete_task / delete_project
OnDelete(h, kind, q) ==
  IF q = <<>> THEN AskWhich(h, IF kind = "project" THEN "delete_project" ELSE "delete_task")
  ELSE IF DeleteItems(q) = <<>> THEN Done(h)
  ELSE [h EXCEPT !.op = "delete", !.kind = kind, !.mode = "loop", !.items = DeleteItems(q),
                 !.pc = "find"]

\* create_task without the test of the title.  C9 must tell the two apart.
OnCreateTaskUnnamed(h) ==
  LET title == trim(h.cmd.title)
      d == [title |-> title, description |-> h.cmd.description, status |-> OrOpen(h.cmd.status),
            due_at |-> h.cmd.due_at, project_id |-> h.cmd.project_id]
  IN [h EXCEPT !.op = "create", !.kind = "task", !.mode = "single", !.draft = d, !.pc = "build"]

\* create_task
OnCreateTask(h) ==
  LET title == trim(h.cmd.title)
      d == [title |-> title, description |-> h.cmd.description, status |-> OrOpen(h.cmd.status),
            due_at |-> h.cmd.due_at, project_id |-> h.cmd.project_id]
      h1 == [h EXCEPT !.op = "create", !.kind = "task", !.mode = "single", !.draft = d]
  IN IF title = <<>> THEN Done(Say(h, "need_title", <<>>))
     ELSE IF h.cmd.project_title # <<>> /\ h.cmd.project_id = <<>>
     THEN [h1 EXCEPT !.pc = "findProject"]
     ELSE [h1 EXCEPT !.pc = "build"]

\* create_project
OnCreateProject(h) ==
  LET title == trim(IF h.cmd.title # <<>> THEN h.cmd.title ELSE h.cmd.project_title)
      d == [title |-> title, description |-> h.cmd.description, status |-> OrOpen(h.cmd.status),
            due_at |-> h.cmd.due_at, project_id |-> <<>>]
  IN IF title = <<>> THEN Done(Say(h, "need_title", <<>>))
     ELSE [h EXCEPT !.op = "create", !.kind = "project", !.mode = "single", !.draft = d,
                    !.pc = "build"]

\* update_task
OnUpdateTask(h) ==
  LET h1 == [h EXCEPT !.op = "update", !.kind = "task", !.mode = "single",
                      !.patch = UpdatePatch(h.cmd, {"title", "description", "status", "due_at", "project_id"})]
  IN IF h.cmd.project_title # <<>> /\ h.cmd.project_id = <<>>
     THEN [h1 EXCEPT !.pc = "findProject"]
     ELSE UpdateChecks(h1)

\* update_project
OnUpdateProject(h) ==
  LET patch == UpdatePatch(h.cmd, {"title", "description", "status", "due_at"})
      q == IF h.cmd.project_id # <<>> THEN h.cmd.project_id
           ELSE Or3(h.cmd.query, h.cmd.project_title, h.cmd.title)
  IN IF q = <<>> THEN Done(Say(h, "need_target", <<>>))
     ELSE IF DOMAIN patch = {} THEN Done(Say(h, "nothing_to_update", <<>>))
     ELSE [h EXCEPT !.op = "update", !.kind = "project", !.mode = "single", !.patch = patch,
                    !.items = <<q>>, !.pc = "find"]

\* src/index.js:1590-1900, 1982-2133  the executor: from the parsed command
\* to the handler's next await
Dispatch(h) ==
  LET a == h.cmd.action
      line == h.platform = "line"
  IN IF a = "ask_user"
     THEN [Say(h, "ask", Line(h.cmd.question)) EXCEPT
             !.arm = IF h.cmd.next_action # "" THEN h.cmd.next_action
                     ELSE IF h.cmd.target_type = "project" THEN "update_project"
                     ELSE "update_task",
             !.pc = "arm"]
     ELSE IF a = "unknown" THEN OnUnknown(h)
     ELSE IF a = "help" /\ line THEN Done(Say(h, "menu", <<>>))
     ELSE IF a \in {"list_tasks", "list_projects"} THEN [h EXCEPT !.pc = "list"]
     ELSE IF a = "complete_task" THEN OnSingle(h, "complete")
     ELSE IF a = "reopen_task" THEN OnSingle(h, "reopen")
     ELSE IF a = "delete_task"
     THEN OnDelete(h, "task", Or3(h.cmd.task_id, h.cmd.query, h.cmd.title))
     ELSE IF a = "update_task" /\ line THEN OnUpdateTask(h)
     ELSE IF a = "create_project" THEN OnCreateProject(h)
     ELSE IF a = "update_project" /\ line THEN OnUpdateProject(h)
     ELSE IF a = "delete_project" /\ line
     THEN OnDelete(h, "project",
                   IF h.cmd.project_id # <<>> THEN h.cmd.project_id
                   ELSE Or3(h.cmd.query, h.cmd.project_title, h.cmd.title))
     ELSE IF a = "create_task" THEN OnCreateTask(h)
     ELSE Done(Say(h, "fallback", <<>>))

\* PatchFor when a delete also blanked the title.  C7 must tell the two apart.
PatchForErasing(h, now) ==
  IF h.op = "complete" THEN ("status" :> <<"d", "o", "n", "e">>) @@ ("done_at" :> toISOString(now))
  ELSE IF h.op = "reopen" THEN ("status" :> <<"o", "p", "e", "n">>) @@ ("done_at" :> <<>>)
  ELSE IF h.op = "delete"
  THEN ("status" :> <<"d", "e", "l", "e", "t", "e", "d">>) @@ ("deleted_at" :> toISOString(now)) @@ ("title" :> <<>>)
  ELSE h.patch

\* the patch a unique match is updated with, stamped at the clock value now
PatchFor(h, now) ==
  IF h.op = "complete" THEN ("status" :> <<"d", "o", "n", "e">>) @@ ("done_at" :> toISOString(now))
  ELSE IF h.op = "reopen" THEN ("status" :> <<"o", "p", "e", "n">>) @@ ("done_at" :> <<>>)
  ELSE IF h.op = "delete" THEN ("status" :> <<"d", "e", "l", "e", "t", "e", "d">>) @@ ("deleted_at" :> toISOString(now))
  ELSE h.patch

\* the delete loop moves to its next item, or ends with its summary
NextItem(h) ==
  IF Len(h.items) > 1 THEN [h EXCEPT !.items = Tail(@), !.pc = "find"]
  ELSE IF h.deleted # <<>>
  THEN Done(Say([h EXCEPT !.items = <<>>], "deleted", [i \in 1..Len(h.deleted) |-> Line(h.deleted[i])[1]]))
  ELSE Done([h EXCEPT !.items = <<>>])

\* AfterMiss were a miss to end the loop.  C31 must tell the two apart.
AfterMissLeaving(h) == Done(h)

\* after a lookup that found no row or several
AfterMiss(h) == IF h.mode = "loop" THEN NextItem(h) ELSE Done(h)

\* the handler's continuation once the store answered a lookup
Looked(h, matches, ids, lines) ==
  LET h1 == [h EXCEPT !.looked = TRUE, !.query = Head(h.items), !.found = ids]
  IN IF Len(matches) = 0 THEN AfterMiss(Say(h1, "not_found", Line(Head(h.items))))
     ELSE IF Len(matches) > 1 THEN AfterMiss(Say(h1, "ambiguous", lines))
     ELSE [h1 EXCEPT !.target = ids[1], !.title = matches[1].title, !.pc = "stamp"]

\* the handler's continuation once the store answered a project lookup made
\* to link a task                         src/index.js:1714-1727, 1855-1869
LookedProject(h, matches, lines) ==
  IF h.op = "update"
  THEN IF Len(matches) = 0 THEN Done(Say(h, "project_not_found", Line(h.cmd.project_title)))
       ELSE IF Len(matches) > 1 THEN Done(Say(h, "ambiguous", lines))
       ELSE UpdateChecks([h EXCEPT !.patch = PatchWith(@, "project_id", matches[1].project_id)])
  ELSE IF Len(matches) > 1 THEN Done(Say(h, "ambiguous", lines))
       ELSE [h EXCEPT !.draft.project_id = IF Len(matches) = 1 THEN matches[1].project_id ELSE <<>>,
                      !.pc = "build"]

\* Failed when the exception leaves the loop over the events.  C24 must tell
\* the two apart.
FailedLeavingLoop(h) ==
  IF h.platform = "line" THEN Done(Say([h EXCEPT !.rest = <<>>], "error", <<>>)) ELSE Done(h)

\* a store call throws: LINE's handler catches it and replies with the
\* error, Discord's has no catch                     src/index.js:1903-1913
Failed(h) == IF h.platform = "line" THEN Done(Say(h, "error", <<>>)) ELSE Done(h)

\* after a row was written
Written(h) ==
  IF h.mode = "pending" THEN [Say(h, "deleted", Line(h.title)) EXCEPT !.looked = FALSE, !.pc = "settle"]
  ELSE IF h.mode = "loop" THEN NextItem([h EXCEPT !.looked = FALSE, !.deleted = Append(@, h.title)])
  ELSE Done(Say([h EXCEPT !.looked = FALSE], "updated", Line(h.title)))

\* after a row was appended
Appended(h) ==
  IF h.mode = "pending" THEN [Say(h, "created", Line(h.draft.title)) EXCEPT !.pc = "settle"]
  ELSE Done(Say(h, "created", Line(h.draft.title)))

\* src/index.js:440-446  formatStatusJa
formatStatusJa(status) ==
  LET s == toLowerCase(status)
  IN IF s = <<"o", "p", "e", "n">> THEN <<"u672A", "u7740", "u624B">>
     ELSE IF s = <<"d", "o", "i", "n", "g">> THEN <<"u9032", "u884C", "u4E2D">>
     ELSE IF s = <<"d", "o", "n", "e">> THEN <<"u5B8C", "u4E86">>
     ELSE IF s = <<"d", "e", "l", "e", "t", "e", "d">> THEN <<"u524A", "u9664">>
     ELSE IF status # <<>> THEN status ELSE <<"u672A", "u8A2D", "u5B9A">>

\* src/index.js:450-456, 503-510  one entry per row, in order, with its title,
\* due date and status label
formatListLines(rows) ==
  [i \in 1..Len(rows) |->
     [title |-> rows[i].title,
      due |-> IF rows[i].due_at # <<>> THEN rows[i].due_at ELSE <<"u672A", "u8A2D", "u5B9A">>,
      status |-> formatStatusJa(rows[i].status)]]

\* formatTaskList without the sentence for an empty list.  C22 must tell the
\* two apart.
formatTaskListBare(rows) == [tag |-> "list", body |-> formatListLines(rows)]

\* src/index.js:448-458  formatTaskList: the fixed sentence when there is no
\* task, else the entries
formatTaskList(rows) ==
  IF rows = <<>> THEN [tag |-> "no_tasks", body |-> <<>>]
  ELSE [tag |-> "list", body |-> formatListLines(rows)]

\* src/index.js:501-511  formatProjectList
formatProjectList(rows) ==
  IF rows = <<>> THEN [tag |-> "no_projects", body |-> <<>>]
  ELSE [tag |-> "list", body |-> formatListLines(rows)]
----------------------------------------------------------------------------
(* The state                                                               *)

VARIABLES
  tasks,           \* the Tasks sheet: its data rows in sheet order
  projects,        \* the Projects sheet
  templates,       \* the Templates sheet
  templateCache,   \* _templateCache                       src/index.js:963
  pendingBySpace,  \* _pendingBySpace                      src/index.js:181
  now,             \* the clock: Date.now() - RefInstant
  handlers         \* the request handlers in flight, by worker

vars == <<tasks, projects, templates, templateCache, pendingBySpace, now, handlers>>

\* the sheets accept no more rows than this: an append beyond it fails as a
\* store call fails
MaxTasks == 2
MaxProjects == 2
MaxTemplates == 1
\* the rows the Templates sheet takes when two handlers record at once
MaxRacingTemplates == 2

\* the clock visits the last instant of each pending-action lifetime and the
\* first instant after it
MaxPeriods == 1
Instants == {0} \cup {p * TtlMs + j : p \in 1..MaxPeriods, j \in 0..1}

Workers == DOMAIN handlers

Free(k) == handlers[k].pc \in {"idle", "done"} /\ handlers[k].rest = <<>>

At(k, pc) == handlers[k].pc = pc

Become(k, h) == handlers' = [handlers EXCEPT ![k] = h]

----------------------------------------------------------------------------
(* The steps                                                               *)

\* src/index.js:1311  POST /line/webhook: a request with its events arrives
LineRequest(k, req) ==
  /\ Free(k)
  /\ Become(k, LineAccepted(req))
  /\ UNCHANGED <<tasks, projects, templates, templateCache, pendingBySpace, now>>

\* src/index.js:1311  POST /line/webhook: a signed request with the one text
\* message event e arrives
LineWebhook(k, e) == LineRequest(k, Request(TRUE, "message", <<e>>))

\* src/index.js:1920  POST /discord/interactions: a request arrives
DiscordRequest(k, req) ==
  /\ Free(k)
  /\ Become(k, DiscordAccepted(req))
  /\ UNCHANGED <<tasks, projects, templates, templateCache, pendingBySpace, now>>

\* src/index.js:1920  POST /discord/interactions: a signed command
\* interaction e arrives
DiscordInteraction(k, e) == DiscordRequest(k, Request(TRUE, "command", <<e>>))

\* src/index.js:1328  the loop over the events goes on with the next event
\* after the one before it was handled
NextEvent(k) ==
  /\ At(k, "done") /\ handlers[k].rest # <<>>
  /\ Become(k, TakeEvent(handlers[k], handlers[k].rest))
  /\ UNCHANGED <<tasks, projects, templates, templateCache, pendingBySpace, now>>

RouteTo(k, r) ==
  /\ Become(k, r.h)
  /\ pendingBySpace' = r.map
  /\ UNCHANGED <<tasks, projects, templates, templateCache, now>>

\* src/index.js:1404-1571  the LINE message is routed: follow-up or command
LineRoute(k) ==
  /\ At(k, "received") /\ handlers[k].platform = "line"
  /\ RouteTo(k, LineRouted(handlers[k], pendingBySpace, now))

\* src/index.js:1948-1967  the Discord interaction is routed
DiscordRoute(k) ==
  /\ At(k, "received") /\ handlers[k].platform = "discord"
  /\ RouteTo(k, DiscordRouted(handlers[k], pendingBySpace, now))

\* src/index.js:966  whether loadTemplates answers from the cache
CacheFresh(cache) == cache.loaded /\ now < cache.expMs

\* src/index.js:965-970  loadTemplates past a stale cache: Date.now() is
\* noted, the read of the sheet is asked for, and the handler waits at pc
Loading(h, pc) == [h EXCEPT !.loadAt = now, !.pc = pc]

\* src/index.js:1016-1018  recordTemplate's test on the rows loadTemplates
\* gave; the row to append carries the instant of the call
Checked(h, data) ==
  IF recordTemplate(data, h.stripped, h.cmd) THEN [h EXCEPT !.stampAt = now, !.pc = "record"]
  ELSE Dispatch(h)

\* src/index.js:1012-1015  the handler once its command is known:
\* recordTemplate up to its loadTemplates, the cache being cache; without a
\* key or an action it returns at once and the executor runs
Parsed(h, cmd, cache) ==
  IF normalizeText(h.stripped) = <<>> \/ cmd.action = "" THEN Dispatch([h EXCEPT !.cmd = cmd])
  ELSE IF CacheFresh(cache) THEN Checked([h EXCEPT !.cmd = cmd], cache.data)
  ELSE Loading([h EXCEPT !.cmd = cmd], "reloading")

\* src/index.js:1575-1582, 1970-1977  after matchTemplate: the fast command,
\* else the call of the language model
MatchedFast(h, fast, cache) ==
  IF fast # NoCmd THEN Parsed(h, fast, cache) ELSE [h EXCEPT !.pc = "llm"]

Matched(h, data, cache) == MatchedFast(h, FastCommand(data, h.stripped, now), cache)

\* src/index.js:1574, 1969  matchTemplate is called: its loadTemplates
\* answers from a fresh cache, else asks for the sheet
MatchTemplate(k) ==
  /\ At(k, "parse")
  /\ Become(k, IF CacheFresh(templateCache)
               THEN Matched(handlers[k], templateCache.data, templateCache)
               ELSE Loading(handlers[k], "loading"))
  /\ UNCHANGED <<tasks, projects, templates, templateCache, pendingBySpace, now>>

\* src/index.js:970  the read of Templates!A:Z is served: the rows are those
\* the sheet holds at this instant, whatever it held when the read was asked
ReadTemplates(k) ==
  /\ handlers[k].pc \in {"loading", "reloading"}
  /\ Become(k, [handlers[k] EXCEPT !.snapshot = TemplateData(templates),
                                   !.pc = IF @ = "loading" THEN "loaded" ELSE "reloaded"])
  /\ UNCHANGED <<tasks, projects, templates, templateCache, pendingBySpace, now>>

\* the cache loadTemplates leaves: the rows it read, kept for a minute from
\* the instant it was called                           src/index.js:989
Installed(h) == TemplatesLoaded(h.snapshot, h.loadAt).cache

\* src/index.js:989-990  the rows of the sheet arrive: loadTemplates puts
\* them in the cache and returns them to matchTemplate or to recordTemplate
InstallTemplates(k) ==
  LET h == [handlers[k] EXCEPT !.snapshot = <<>>, !.loadAt = 0]
  IN /\ handlers[k].pc \in {"loaded", "reloaded"}
     /\ templateCache' = Installed(handlers[k])
     /\ Become(k, IF handlers[k].pc = "loaded"
                  THEN Matched(h, handlers[k].snapshot, Installed(handlers[k]))
                  ELSE Checked(h, handlers[k].snapshot))
     /\ UNCHANGED <<tasks, projects, templates, pendingBySpace, now>>

\* src/index.js:1582, 1977  parseCommandFromText returns: the language
\* model's reply, drawn from replies, becomes the command
Parse(k, replies) ==
  /\ At(k, "llm")
  /\ \E r \in replies :
        Become(k, Parsed(handlers[k], parseCommandFromText(handlers[k].text, now, r), templateCache))
  /\ UNCHANGED <<tasks, projects, templates, templateCache, pendingBySpace, now>>

\* src/index.js:1018-1028  the append recordTemplate asked for reaches the
\* sheet, while it holds fewer than cap rows; beyond that the call fails
RecordWithin(k, cap) ==
  LET h == [handlers[k] EXCEPT !.stampAt = 0, !.pc = "recorded"]
  IN /\ At(k, "record")
     /\ IF Len(templates) < cap
        THEN /\ templates' = Append(templates, TemplateRow(h.stripped, h.cmd, handlers[k].stampAt))
             /\ Become(k, [h EXCEPT !.appended = TRUE])
        ELSE /\ UNCHANGED templates
             /\ Become(k, h)
     /\ UNCHANGED <<tasks, projects, templateCache, pendingBySpace, now>>

Record(k) == RecordWithin(k, MaxTemplates)

\* src/index.js:1029-1032  the append has returned, and the cache is made
\* stale, or it has thrown, which recordTemplate ignores: the executor runs
Recorded(k) ==
  /\ At(k, "recorded")
  /\ templateCache' = IF handlers[k].appended THEN [templateCache EXCEPT !.expMs = 0]
                      ELSE templateCache
  /\ Become(k, Dispatch([handlers[k] EXCEPT !.appended = FALSE]))
  /\ UNCHANGED <<tasks, projects, templates, pendingBySpace, now>>

\* setPending after the question was sent  src/index.js:1594, 1603, 1609, 1681
Arm(k) ==
  LET h == handlers[k]
  IN /\ At(k, "arm")
     /\ pendingBySpace' = setPending(pendingBySpace, h.spaceId, h.userId, h.arm, now)
     /\ Become(k, Done(h))
     /\ UNCHANGED <<tasks, projects, templates, templateCache, now>>

\* list_tasks / list_projects              src/index.js:1621-1631, 2006-2016
List(k) ==
  LET h == handlers[k]
      msg == IF h.cmd.action = "list_tasks"
             THEN formatTaskList(sheetsGetTasksBySpace(tasks, h.spaceId, 20, FALSE))
             ELSE formatProjectList(sheetsGetProjectsBySpace(projects, h.spaceId, 50, FALSE))
  IN /\ At(k, "list")
     /\ Become(k, Done(Say(h, msg.tag, msg.body)))
     /\ UNCHANGED <<tasks, projects, templates, templateCache, pendingBySpace, now>>

LookedTasks(h, m) ==
  Looked(h, m, [i \in 1..Len(m) |-> m[i].task_id], formatTaskMatches(m))

LookedProjects(h, m) ==
  Looked(h, m, [i \in 1..Len(m) |-> m[i].project_id], formatProjectMatches(m))

\* findTasksByQuery / findProjectsByQuery for the handler's next item: the
\* read of the sheet is served
Find(k) ==
  /\ At(k, "find")
  /\ Become(k, IF handlers[k].kind = "task"
               THEN LookedTasks(handlers[k],
                                findTasksByQuery(tasks, handlers[k].spaceId,
                                                 Head(handlers[k].items), 200))
               ELSE LookedProjects(handlers[k],
                                   findProjectsByQuery(projects, handlers[k].spaceId,
                                                       Head(handlers[k].items), 200)))
  /\ UNCHANGED <<tasks, projects, templates, templateCache, pendingBySpace, now>>

\* the lookup has returned one row and, in a follow-up, the notice that the
\* deletion is under way was sent: the patch is built, new Date() included
\* src/index.js:272-273, 289-290, 1435-1436, 1536-1537, 1650, 1698
Stamp(k) ==
  /\ At(k, "stamp")
  /\ Become(k, [handlers[k] EXCEPT !.patch = PatchFor(handlers[k], now), !.pc = "readRow"])
  /\ UNCHANGED <<tasks, projects, templates, templateCache, pendingBySpace, now>>

LinkedProject(h, m) == LookedProject(h, m, formatProjectMatches(m))

\* the project a task is to be linked to   src/index.js:1715, 1856, 2093
FindProject(k) ==
  /\ At(k, "findProject")
  /\ Become(k, LinkedProject(handlers[k],
                             findProjectsByQuery(projects, handlers[k].spaceId,
                                                 handlers[k].cmd.project_title, 200)))
  /\ UNCHANGED <<tasks, projects, templates, templateCache, pendingBySpace, now>>

\* sheetsUpdateTask / sheetsUpdateProject: the row is located and the read
\* of its cells is served: the cells up to the last one that is not empty
\* src/index.js:595-609
ReadRow(k) ==
  LET h == handlers[k]
      rows == IF h.kind = "task" THEN tasks ELSE projects
      n == sheetsFindRowById(rows, h.kind, h.target)
  IN /\ At(k, "readRow")
     /\ Become(k, IF n = 0 THEN Failed(h)
                  ELSE [h EXCEPT !.rowNumber = n, !.row = <<rows[n]>>,
                                 !.cells = RowCells(HeaderOf(h.kind), rows[n]),
                                 !.pc = "patchRow"])
     /\ UNCHANGED <<tasks, projects, templates, templateCache, pendingBySpace, now>>

\* the fields whose cells sheetsUpdateTask / sheetsUpdateProject set
\* src/index.js:627-634, 677-682
FieldsSet(h) ==
  (DOMAIN h.patch \cap (IF h.kind = "task" THEN TaskPatchFields ELSE ProjectPatchFields))
    \cup {"updated_at"}

\* src/index.js:611-634  the cells have arrived: the patch and the instant
\* are written into the array, which grows to hold them
PatchRow(k) ==
  LET h == handlers[k]
  IN /\ At(k, "patchRow")
     /\ Become(k, [h EXCEPT !.row = <<IF h.kind = "task" THEN ApplyTaskPatch(h.row[1], h.patch, now)
                                      ELSE ApplyProjectPatch(h.row[1], h.patch, now)>>,
                            !.cells = CellsSet(HeaderOf(h.kind), h.cells, FieldsSet(h)),
                            !.pc = "writeRow"])
     /\ UNCHANGED <<tasks, projects, templates, templateCache, pendingBySpace, now>>

\* values.update were it to write every column of the row, the cells
\* beyond the array as empty ones.  C34 must tell the two apart.
WriteRowWhole(k) ==
  LET h == handlers[k]
  IN /\ At(k, "writeRow")
     /\ IF h.kind = "task"
        THEN tasks' = [tasks EXCEPT ![h.rowNumber] = h.row[1]] /\ UNCHANGED projects
        ELSE projects' = [projects EXCEPT ![h.rowNumber] = h.row[1]] /\ UNCHANGED tasks
     /\ Become(k, Written(h))
     /\ UNCHANGED <<templates, templateCache, pendingBySpace, now>>

\* src/index.js:636-641  values.update: the cells of the array replace the
\* first cells of row rowNumber, whatever the row holds by then
WriteRow(k) ==
  LET h == handlers[k]
  IN /\ At(k, "writeRow")
     /\ IF h.kind = "task"
        THEN tasks' = [tasks EXCEPT ![h.rowNumber] = RowUpdated(TaskHeader, @, h.row[1], h.cells)]
             /\ UNCHANGED projects
        ELSE projects' = [projects EXCEPT ![h.rowNumber] = RowUpdated(ProjectHeader, @, h.row[1], h.cells)]
             /\ UNCHANGED tasks
     /\ Become(k, Written(h))
     /\ UNCHANGED <<templates, templateCache, pendingBySpace, now>>

\* src/index.js:525-533, 549-557  sheetsAppendTask / sheetsAppendProject
\* have read the header: the row is built, with its identifier and stamps
BuildRow(k) ==
  /\ At(k, "build")
  /\ Become(k, [handlers[k] EXCEPT !.stampAt = now, !.pc = "append"])
  /\ UNCHANGED <<tasks, projects, templates, templateCache, pendingBySpace, now>>

\* src/index.js:545, 570  sheetsAppendRow: the row built reaches the sheet
AppendRow(k) ==
  LET h == [handlers[k] EXCEPT !.stampAt = 0]
      d == h.draft
      at == handlers[k].stampAt
      ok == IF h.kind = "task" THEN Len(tasks) < MaxTasks ELSE Len(projects) < MaxProjects
  IN /\ At(k, "append")
     /\ IF ok /\ h.kind = "task"
        THEN tasks' = sheetsAppendTask(tasks, h.spaceId, d.project_id, d.title, d.description,
                                       d.status, d.due_at, h.userId, at)
        ELSE UNCHANGED tasks
     /\ IF ok /\ h.kind = "project"
        THEN projects' = sheetsAppendProject(projects, h.spaceId, d.title, d.description,
                                             d.status, d.due_at, h.userId, at)
        ELSE UNCHANGED projects
     /\ Become(k, IF ok THEN Appended(h) ELSE Failed(h))
     /\ UNCHANGED <<templates, templateCache, pendingBySpace, now>>

\* clearPending once the pending action was carried out
\* src/index.js:237, 258, 275, 292, 1438, 1457, 1501, 1521, 1539, 1557
Settle(k) ==
  LET h == handlers[k]
  IN /\ At(k, "settle")
     /\ pendingBySpace' = clearPending(pendingBySpace, h.spaceId, h.userId)
     /\ Become(k, Done(h))
     /\ UNCHANGED <<tasks, projects, templates, templateCache, now>>

\* time passes
Tick ==
  /\ \E t \in Instants : t > now /\ now' = t
  /\ UNCHANGED <<tasks, projects, templates, templateCache, pendingBySpace, handlers>>

\* src/index.js:882-948, 1578  parseDueAtFromText applied to the text of the
\* request at the clock's instant: the due date the command gets
ParseDueAt(k) ==
  /\ At(k, "due")
  /\ Become(k, [handlers[k] EXCEPT !.at = now,
                                   !.cmd.due_at = parseDueAtFromText(handlers[k].text, now),
                                   !.pc = "done"])
  /\ UNCHANGED <<tasks, projects, templates, templateCache, pendingBySpace, now>>

\* src/index.js:1218-1248  parseCommandFromText below the rule table, for an
\* utterance no rule reads: the call of the model and what is made of its
\* answer.  keys records the keys of the object returned.
ParseFallback(k, answer) ==
  /\ At(k, "fallback")
  /\ regexQuickParse(handlers[k].stripped, now) = NoCmd
  /\ Become(k, [handlers[k] EXCEPT !.at = now,
                                   !.cmd = ParsedOr(NoCmd, handlers[k].stripped, now, ReplyOf(answer)),
                                   !.keys = FallbackKeys(answer),
                                   !.pc = "done"])
  /\ UNCHANGED <<tasks, projects, templates, templateCache, pendingBySpace, now>>

\* src/index.js:1035-1204  regexQuickParse applied to the handler's text at
\* the clock's instant; the handler may run it again later
QuickParse(k) ==
  /\ At(k, "quick")
  /\ Become(k, [handlers[k] EXCEPT !.at = now, !.route = "quick",
                                   !.cmd = regexQuickParse(handlers[k].text, now)])
  /\ UNCHANGED <<tasks, projects, templates, templateCache, pendingBySpace, now>>

\* time passes, by days
DayPasses(instants) ==
  /\ \E t \in instants : t > now /\ now' = t
  /\ UNCHANGED <<tasks, projects, templates, templateCache, pendingBySpace, handlers>>
----------------------------------------------------------------------------
(* The specifications                                                      *)

\* a row as an earlier run of the bot left it
SeedTask(n, spaceId, title) ==
  TaskRow(makeId(<<"t", "s", "k">>, 0, n), spaceId, <<>>, title, <<>>, <<>>, <<>>, "U1", 0)

SeedProject(n, spaceId, title) ==
  ProjectRow(makeId(<<"p", "r", "j">>, 0, n), spaceId, title, <<>>, <<>>, <<>>, "U1", 0)

Event(spaceId, userId, text) == [spaceId |-> spaceId, userId |-> userId, text |-> text]

\* the bot after its start, over the sheets as they are then
InitWith(tasks0, projects0, templates0, workers) ==
  /\ tasks = tasks0
  /\ projects = projects0
  /\ templates = templates0
  /\ templateCache = [loaded |-> FALSE, data |-> <<>>, expMs |-> 0]
  /\ pendingBySpace = [s \in {} |-> NoPending]
  /\ now = 0
  /\ handlers = [k \in workers |-> Idle]

----------------------------------------------------------------------------
(* Spec: one group chat with one member, one request at a time, on both    *)
(* platforms.                                                              *)

\* what the language model may answer: nothing usable (NoCmd), that it does
\* not understand, or a question for the user
Replies == {NoCmd, Cmd("unknown"), [Cmd("ask_user") EXCEPT !.question = <<"w", "h", "i", "c", "h", "?">>]}

LineTexts ==
  {<<"@", "K", "A", "I", " ", "b", "o", "t">>, <<"@", "K", "A", "I", " ", "b", "o", "t", " ", "u30BF", "u30B9", "u30AF", "u4E00", "u89A7">>, <<"@", "K", "A", "I", " ", "b", "o", "t", " ", "d", "e", "l", "e", "t", "e", " ", "t", "a", "s", "k">>, <<"@", "K", "A", "I", " ", "b", "o", "t", " ", "u30BF", "u30B9", "u30AF", "u8FFD", "u52A0">>, <<"a", "b", "c">>,
   <<"@", "K", "A", "I", " ", "b", "o", "t", " ", "t", "a", "s", "k", ":", " ", "x", "y", " ", "/", " ", "s", "t", "a", "t", "u", "s", ":", " ", "w", "i", "p">>, <<"@", "K", "A", "I", " ", "b", "o", "t", " ", "u30D7", "u30ED", "u30B8", "u30A7", "u30AF", "u30C8", "p", "x", "u306B", "x", "y", "u3092", "u8FFD", "u52A0">>, <<"@", "K", "A", "I", " ", "b", "o", "t", " ", "d", "o", "n", "e", " ", "a", "b", "c">>,
   <<"@", "K", "A", "I", " ", "b", "o", "t", " ", "r", "e", "o", "p", "e", "n", " ", "a", "b", "c">>, <<"@", "K", "A", "I", " ", "b", "o", "t", " ", "\"", "a", "b", "c", "\"", " ", "u7D42", "u4E86", "u306B", "u5909", "u66F4">>}

LineEvents == {Event("S1", "U1", t) : t \in LineTexts}

DiscordEvents == {Event("S1", "U1", t) : t \in {<<"d", "e", "l", "e", "t", "e", " ", "t", "a", "s", "k">>, <<"a", "b", "c">>}}

Init ==
  InitWith(<<SeedTask(1, "S1", <<"a", "b", "c">>)>>, <<SeedProject(1, "S1", <<"p", "x">>)>>,
           <<TemplateRow(<<"u30BF", "u30B9", "u30AF", "u4E00", "u89A7">>, Cmd("list_tasks"), 0)>>, {"w1"})

Next ==
  \/ \E k \in Workers, e \in LineEvents : LineWebhook(k, e)
  \/ \E k \in Workers, e \in DiscordEvents : DiscordInteraction(k, e)
  \/ \E k \in Workers : LineRoute(k)
  \/ \E k \in Workers : DiscordRoute(k)
  \/ \E k \in Workers : MatchTemplate(k)
  \/ \E k \in Workers : ReadTemplates(k)
  \/ \E k \in Workers : InstallTemplates(k)
  \/ \E k \in Workers : Parse(k, Replies)
  \/ \E k \in Workers : Record(k)
  \/ \E k \in Workers : Recorded(k)
  \/ \E k \in Workers : Arm(k)
  \/ \E k \in Workers : List(k)
  \/ \E k \in Workers : Find(k)
  \/ \E k \in Workers : Stamp(k)
  \/ \E k \in Workers : FindProject(k)
  \/ \E k \in Workers : ReadRow(k)
  \/ \E k \in Workers : PatchRow(k)
  \/ \E k \in Workers : WriteRow(k)
  \/ \E k \in Workers : BuildRow(k)
  \/ \E k \in Workers : AppendRow(k)
  \/ \E k \in Workers : Settle(k)

Spec == Init /\ [][Next]_vars

----------------------------------------------------------------------------
(* SpecDelete: rows are deleted and added while time passes.                *)

DeleteTexts ==
  {<<"@", "K", "A", "I", " ", "b", "o", "t", " ", "d", "e", "l", "e", "t", "e", " ", "a", "b", "c">>, <<"@", "K", "A", "I", " ", "b", "o", "t", " ", "p", "x", " ", "u30D7", "u30ED", "u30B8", "u30A7", "u30AF", "u30C8", "u524A", "u9664">>, <<"@", "K", "A", "I", " ", "b", "o", "t", " ", "d", "e", "l", "e", "t", "e", " ", "t", "a", "s", "k">>, <<"a", "b", "c">>,
   <<"@", "K", "A", "I", " ", "b", "o", "t", " ", "t", "a", "s", "k", ":", " ", "x", "y">>}

DeleteEvents == {Event("S1", "U1", t) : t \in DeleteTexts}

InitDelete ==
  InitWith(<<SeedTask(1, "S1", <<"a", "b", "c">>)>>, <<SeedProject(1, "S1", <<"p", "x">>)>>,
           <<TemplateRow(<<"u30BF", "u30B9", "u30AF", "u4E00", "u89A7">>, Cmd("list_tasks"), 0)>>, {"w1"})

NextDelete ==
  \/ \E k \in Workers, e \in DeleteEvents : LineWebhook(k, e)
  \/ \E k \in Workers : LineRoute(k)
  \/ \E k \in Workers : MatchTemplate(k)
  \/ \E k \in Workers : ReadTemplates(k)
  \/ \E k \in Workers : InstallTemplates(k)
  \/ \E k \in Workers : Record(k)
  \/ \E k \in Workers : Recorded(k)
  \/ \E k \in Workers : Arm(k)
  \/ \E k \in Workers : Find(k)
  \/ \E k \in Workers : Stamp(k)
  \/ \E k \in Workers : ReadRow(k)
  \/ \E k \in Workers : PatchRow(k)
  \/ \E k \in Workers : WriteRow(k)
  \/ \E k \in Workers : BuildRow(k)
  \/ \E k \in Workers : AppendRow(k)
  \/ \E k \in Workers : Settle(k)
  \/ Tick

SpecDelete == InitDelete /\ [][NextDelete]_vars

----------------------------------------------------------------------------
(* SpecCreate: the ways a row is created or renamed, on both platforms.    *)

\* the language model answers with a command: a task without a name, a task
\* named by blanks, a new name for a task
CreateReplies ==
  {Cmd("unknown"), Cmd("create_task"), [Cmd("create_task") EXCEPT !.title = <<" ">>],
   [Cmd("update_task") EXCEPT !.query = <<"a", "b", "c">>, !.new_title = <<"z">>]}

CreateTexts ==
  {<<"@", "K", "A", "I", " ", "b", "o", "t", " ", "t", "a", "s", "k", ":", " ", "x", "y", " ", "/", " ", "s", "t", "a", "t", "u", "s", ":", " ", "w", "i", "p">>, <<"@", "K", "A", "I", " ", "b", "o", "t", " ", "p", "r", "o", "j", "e", "c", "t", ":", " ", "p", "y">>, <<"@", "K", "A", "I", " ", "b", "o", "t", " ", "u30D7", "u30ED", "u30B8", "u30A7", "u30AF", "u30C8", "p", "x", "u306B", "x", "y", "u3092", "u8FFD", "u52A0">>,
   <<"@", "K", "A", "I", " ", "b", "o", "t", " ", "u30BF", "u30B9", "u30AF", "u8FFD", "u52A0">>, <<"@", "K", "A", "I", " ", "b", "o", "t", " ", "x", "y">>}

CreateLineEvents == {Event("S1", "U1", t) : t \in CreateTexts}

CreateDiscordEvents == {Event("S1", "U1", t) : t \in {<<"u30D7", "u30ED", "u30B8", "u30A7", "u30AF", "u30C8", "u8FFD", "u52A0">>, <<>>, <<"p", "y">>}}

InitCreate ==
  InitWith(<<SeedTask(1, "S1", <<"a", "b", "c">>)>>, <<SeedProject(1, "S1", <<"p", "x">>)>>,
           <<TemplateRow(<<"u30BF", "u30B9", "u30AF", "u4E00", "u89A7">>, Cmd("list_tasks"), 0)>>, {"w1"})

NextCreate ==
  \/ \E k \in Workers, e \in CreateLineEvents : LineWebhook(k, e)
  \/ \E k \in Workers, e \in CreateDiscordEvents : DiscordInteraction(k, e)
  \/ \E k \in Workers : LineRoute(k)
  \/ \E k \in Workers : DiscordRoute(k)
  \/ \E k \in Workers : MatchTemplate(k)
  \/ \E k \in Workers : ReadTemplates(k)
  \/ \E k \in Workers : InstallTemplates(k)
  \/ \E k \in Workers : Parse(k, CreateReplies)
  \/ \E k \in Workers : Record(k)
  \/ \E k \in Workers : Recorded(k)
  \/ \E k \in Workers : Arm(k)
  \/ \E k \in Workers : Find(k)
  \/ \E k \in Workers : Stamp(k)
  \/ \E k \in Workers : FindProject(k)
  \/ \E k \in Workers : ReadRow(k)
  \/ \E k \in Workers : PatchRow(k)
  \/ \E k \in Workers : WriteRow(k)
  \/ \E k \in Workers : BuildRow(k)
  \/ \E k \in Workers : AppendRow(k)
  \/ \E k \in Workers : Settle(k)

SpecCreate == InitCreate /\ [][NextCreate]_vars

----------------------------------------------------------------------------
(* SpecPending: a LINE group chat with two members while time passes; the  *)
(* bot asks, and a member answers, or answers too late.                    *)

PendingTexts == {<<"@", "K", "A", "I", " ", "b", "o", "t", " ", "d", "e", "l", "e", "t", "e", " ", "t", "a", "s", "k">>, <<"a", "b", "c">>, <<"u30AD", "u30E3", "u30F3", "u30BB", "u30EB">>}

\* the members' messages, messages whose source names no user, and one
\* whose source names neither a group nor a user
PendingEvents ==
  {Event("S1", u, t) : u \in {"U1", "U2"}, t \in PendingTexts}
  \cup {Event("S1", "", t) : t \in {<<"a", "b", "c">>, <<"@", "K", "A", "I", " ", "b", "o", "t", " ", "d", "e", "l", "e", "t", "e", " ", "t", "a", "s", "k">>}}
  \cup {Event("", "", <<"@", "K", "A", "I", " ", "b", "o", "t", " ", "d", "e", "l", "e", "t", "e", " ", "t", "a", "s", "k">>)}

InitPending ==
  InitWith(<<SeedTask(1, "S1", <<"a", "b", "c">>)>>, <<>>, <<TemplateRow(<<"u30BF", "u30B9", "u30AF", "u4E00", "u89A7">>, Cmd("list_tasks"), 0)>>,
           {"w1"})

NextPending ==
  \/ \E k \in Workers, e \in PendingEvents : LineWebhook(k, e)
  \/ \E k \in Workers : LineRoute(k)
  \/ \E k \in Workers : MatchTemplate(k)
  \/ \E k \in Workers : ReadTemplates(k)
  \/ \E k \in Workers : InstallTemplates(k)
  \/ \E k \in Workers : Record(k)
  \/ \E k \in Workers : Recorded(k)
  \/ \E k \in Workers : Arm(k)
  \/ \E k \in Workers : Find(k)
  \/ \E k \in Workers : Stamp(k)
  \/ \E k \in Workers : ReadRow(k)
  \/ \E k \in Workers : PatchRow(k)
  \/ \E k \in Workers : WriteRow(k)
  \/ \E k \in Workers : Settle(k)
  \/ Tick

SpecPending == InitPending /\ [][NextPending]_vars

----------------------------------------------------------------------------
(* SpecRace: two webhook requests in flight at once.  Each handler runs    *)
(* from one await to the next; the other runs in between.                  *)

RaceEvents == {Event("S1", "U1", t) : t \in {<<"@", "K", "A", "I", " ", "b", "o", "t", " ", "d", "o", "n", "e", " ", "a", "b", "c">>, <<"@", "K", "A", "I", " ", "b", "o", "t", " ", "d", "e", "l", "e", "t", "e", " ", "a", "b", "c">>}}

InitRace ==
  InitWith(<<SeedTask(1, "S1", <<"a", "b", "c">>)>>, <<>>, <<TemplateRow(<<"u30BF", "u30B9", "u30AF", "u4E00", "u89A7">>, Cmd("list_tasks"), 0)>>,
           {"w1", "w2"})

NextRace ==
  \/ \E k \in Workers, e \in RaceEvents : LineWebhook(k, e)
  \/ \E k \in Workers : LineRoute(k)
  \/ \E k \in Workers : MatchTemplate(k)
  \/ \E k \in Workers : ReadTemplates(k)
  \/ \E k \in Workers : InstallTemplates(k)
  \/ \E k \in Workers : Record(k)
  \/ \E k \in Workers : Recorded(k)
  \/ \E k \in Workers : Find(k)
  \/ \E k \in Workers : Stamp(k)
  \/ \E k \in Workers : ReadRow(k)
  \/ \E k \in Workers : PatchRow(k)
  \/ \E k \in Workers : WriteRow(k)

SpecRace == InitRace /\ [][NextRace]_vars

----------------------------------------------------------------------------
(* SpecLarge: a space with more live tasks than one lookup scans.          *)

\* the rows of the Tasks sheet: one more than the lookups' scan limit of 200
\* rows, and one more after it
LargeRows == 202

\* row 1 is named by its identifier in the titles of rows 2 and 3; the last
\* row alone is titled zq
LargeTitle(n) ==
  IF n \in {2, 3} THEN makeId(<<"t", "s", "k">>, 0, 1) \o <<"+">>
  ELSE IF n = LargeRows THEN <<"z", "q">>
  ELSE <<"a", "b">>

LargeTasks == [n \in 1..LargeRows |-> SeedTask(n, "S1", LargeTitle(n))]

LargeLineEvents ==
  {Event("S1", "U1", t) :
     t \in {<<"@", "K", "A", "I", " ", "b", "o", "t", " ", "d", "o", "n", "e", " ", "a", "b">>, <<"@", "K", "A", "I", " ", "b", "o", "t", " ", "d", "o", "n", "e", " ", "z", "q">>, <<"@", "K", "A", "I", " ", "b", "o", "t", " ", "d", "o", "n", "e", " ", "t", "s", "k", "_", "0", "_", "1">>, <<"@", "K", "A", "I", " ", "b", "o", "t", " ", "r", "e", "o", "p", "e", "n", " ", "a", "b">>,
            <<"@", "K", "A", "I", " ", "b", "o", "t", " ", "\"", "a", "b", "\"", " ", "u7D42", "u4E86", "u306B", "u5909", "u66F4">>, <<"@", "K", "A", "I", " ", "b", "o", "t", " ", "d", "e", "l", "e", "t", "e", " ", "a", "b", "u3001", "z", "q">>, <<"@", "K", "A", "I", " ", "b", "o", "t", " ", "d", "e", "l", "e", "t", "e", " ", "t", "a", "s", "k">>, <<"a", "b">>,
            <<"@", "K", "A", "I", " ", "b", "o", "t", " ", "p", "x", " ", "u30D7", "u30ED", "u30B8", "u30A7", "u30AF", "u30C8", "u524A", "u9664">>, <<"@", "K", "A", "I", " ", "b", "o", "t", " ", "\"", "p", "x", "\"", " ", "u30D7", "u30ED", "u30B8", "u30A7", "u30AF", "u30C8", "u5B8C", "u4E86">>}}

LargeDiscordEvents == {Event("S1", "U1", t) : t \in {<<"d", "o", "n", "e", " ", "a", "b">>, <<"d", "e", "l", "e", "t", "e", " ", "a", "b">>, <<"d", "e", "l", "e", "t", "e", " ", "t", "a", "s", "k">>, <<"a", "b">>, <<>>}}

InitLarge ==
  InitWith(LargeTasks, <<SeedProject(1, "S1", <<"p", "x">>), SeedProject(2, "S1", <<"p", "x", "y">>)>>,
           <<TemplateRow(<<"u30BF", "u30B9", "u30AF", "u4E00", "u89A7">>, Cmd("list_tasks"), 0)>>, {"w1"})

NextLarge ==
  \/ \E k \in Workers, e \in LargeLineEvents : LineWebhook(k, e)
  \/ \E k \in Workers, e \in LargeDiscordEvents : DiscordInteraction(k, e)
  \/ \E k \in Workers : LineRoute(k)
  \/ \E k \in Workers : DiscordRoute(k)
  \/ \E k \in Workers : MatchTemplate(k)
  \/ \E k \in Workers : ReadTemplates(k)
  \/ \E k \in Workers : InstallTemplates(k)
  \/ \E k \in Workers : Parse(k, {NoCmd})
  \/ \E k \in Workers : Record(k)
  \/ \E k \in Workers : Recorded(k)
  \/ \E k \in Workers : Arm(k)
  \/ \E k \in Workers : Find(k)
  \/ \E k \in Workers : Stamp(k)
  \/ \E k \in Workers : ReadRow(k)
  \/ \E k \in Workers : PatchRow(k)
  \/ \E k \in Workers : WriteRow(k)

SpecLarge == InitLarge /\ [][NextLarge]_vars

----------------------------------------------------------------------------
(* SpecCancel: the bot asks for a name, on either platform, and the member *)
(* answers with a cancel word.                                             *)

\* the messages that are exactly a cancel word, with and without the trigger
CancelTexts == {<<"u30AD", "u30E3", "u30F3", "u30BB", "u30EB">>, <<"u4E2D", "u6B62">>, <<"@", "K", "A", "I", " ", "b", "o", "t", " ", "u30AD", "u30E3", "u30F3", "u30BB", "u30EB">>, <<"@", "K", "A", "I", " ", "b", "o", "t", " ", "u3084", "u3081", "u308B">>}

CancelLineEvents ==
  {Event("S1", "U1", t) : t \in CancelTexts \cup {<<"@", "K", "A", "I", " ", "b", "o", "t", " ", "d", "e", "l", "e", "t", "e", " ", "t", "a", "s", "k">>, <<"@", "K", "A", "I", " ", "b", "o", "t", " ", "u30BF", "u30B9", "u30AF", "u8FFD", "u52A0">>}}

CancelDiscordEvents == {Event("S1", "U1", t) : t \in {<<"d", "e", "l", "e", "t", "e", " ", "t", "a", "s", "k">>, <<"u30D7", "u30ED", "u30B8", "u30A7", "u30AF", "u30C8", "u8FFD", "u52A0">>, <<"u4E2D", "u6B62">>, <<"u3084", "u3081", "u308B">>}}

InitCancel ==
  InitWith(<<SeedTask(1, "S1", <<"a", "b", "c">>)>>, <<SeedProject(1, "S1", <<"p", "x">>)>>,
           <<TemplateRow(<<"u30BF", "u30B9", "u30AF", "u4E00", "u89A7">>, Cmd("list_tasks"), 0)>>, {"w1"})

NextCancel ==
  \/ \E k \in Workers, e \in CancelLineEvents : LineWebhook(k, e)
  \/ \E k \in Workers, e \in CancelDiscordEvents : DiscordInteraction(k, e)
  \/ \E k \in Workers : LineRoute(k)
  \/ \E k \in Workers : DiscordRoute(k)
  \/ \E k \in Workers : MatchTemplate(k)
  \/ \E k \in Workers : ReadTemplates(k)
  \/ \E k \in Workers : InstallTemplates(k)
  \/ \E k \in Workers : Parse(k, {NoCmd})
  \/ \E k \in Workers : Record(k)
  \/ \E k \in Workers : Recorded(k)
  \/ \E k \in Workers : Arm(k)

SpecCancel == InitCancel /\ [][NextCancel]_vars

----------------------------------------------------------------------------
(* SpecTemplate: two group chats and an empty Templates sheet: the first   *)
(* utterance resolved is recorded, and utterances are repeated.            *)

\* the language model does not understand, or answers with a new task
TemplateReplies == {Cmd("unknown"), [Cmd("create_task") EXCEPT !.title = <<"z">>]}

\* the two chats never send the same text: what S2 says differs in letter
\* case from what S1 says, so the text of a recorded row tells which chat it
\* was recorded from
TemplateEvents ==
  {Event("S1", "U1", t) : t \in {<<"@", "K", "A", "I", " ", "b", "o", "t", " ", "H", "e", "l", "l", "o">>, <<"@", "K", "A", "I", " ", "b", "o", "t", " ", "t", "a", "s", "k", ":", " ", "x", "y">>, <<"@", "K", "A", "I", " ", "b", "o", "t", " ", "d", "e", "l", "e", "t", "e", " ", "a", "b", "c">>}}
    \cup {Event("S2", "U2", t) : t \in {<<"@", "K", "A", "I", " ", "b", "o", "t", " ", "h", "e", "l", "l", "o">>}}

\* the utterances of a chat, as recordTemplate keys them
SaidIn(spaceId) ==
  {normalizeText(stripTriggerPrefix(e.text)) : e \in {x \in TemplateEvents : x.spaceId = spaceId}}

InitTemplate == InitWith(<<SeedTask(1, "S1", <<"a", "b", "c">>)>>, <<>>, <<>>, {"w1"})

NextTemplate ==
  \/ \E k \in Workers, e \in TemplateEvents : LineWebhook(k, e)
  \/ \E k \in Workers : LineRoute(k)
  \/ \E k \in Workers : MatchTemplate(k)
  \/ \E k \in Workers : ReadTemplates(k)
  \/ \E k \in Workers : InstallTemplates(k)
  \/ \E k \in Workers : Parse(k, TemplateReplies)
  \/ \E k \in Workers : Record(k)
  \/ \E k \in Workers : Recorded(k)
  \/ \E k \in Workers : Find(k)
  \/ \E k \in Workers : Stamp(k)
  \/ \E k \in Workers : ReadRow(k)
  \/ \E k \in Workers : PatchRow(k)
  \/ \E k \in Workers : WriteRow(k)
  \/ \E k \in Workers : BuildRow(k)
  \/ \E k \in Workers : AppendRow(k)

SpecTemplate == InitTemplate /\ [][NextTemplate]_vars

----------------------------------------------------------------------------
(* SpecDue: parseDueAtFromText over date phrases, time phrases and          *)
(* reference instants.                                                     *)

\* the reference instants, each with the local (UTC+9) date it falls on:
\* 2025-12-20 12:00, 2025-12-01 12:00, 2025-12-21 05:00 (still the 20th in
\* UTC), 2025-12-31 23:30 and 2026-01-05 12:00 local time
DueInstants ==
  {[now |-> 0, y |-> 2025, m |-> 12, d |-> 20],
   [now |-> -19 * MsPerDay, y |-> 2025, m |-> 12, d |-> 1],
   [now |-> 17 * 3600000, y |-> 2025, m |-> 12, d |-> 21],
   [now |-> 11 * MsPerDay + 41400000, y |-> 2025, m |-> 12, d |-> 31],
   [now |-> 16 * MsPerDay, y |-> 2026, m |-> 1, d |-> 5]}

\* a date phrase and the date it names: y = 0 when it names no year, m = 0
\* when it names no month and day, rel the days from today of a relative word
DuePhrase(text, y, m, d, rel) == [text |-> text, y |-> y, m |-> m, d |-> d, rel |-> rel]

DueDates ==
  {DuePhrase(<<"1", "/", "1", "0">>, 0, 1, 10, -1), DuePhrase(<<"4", "/", "1", "0">>, 0, 4, 10, -1),
   DuePhrase(<<"1", "2", "/", "2", "0">>, 0, 12, 20, -1), DuePhrase(<<"1", "2", "-", "1", "9">>, 0, 12, 19, -1),
   DuePhrase(<<"1", "u6708", "1", "0", "u65E5">>, 0, 1, 10, -1), DuePhrase(<<"1", "/", "1", "0", " ", "2", "0", "3", "0", "u5186">>, 0, 1, 10, -1),
   DuePhrase(<<"2", "0", "2", "6", "-", "0", "1", "-", "1", "0">>, 2026, 1, 10, -1), DuePhrase(<<"2", "0", "2", "4", "/", "3", "/", "5">>, 2024, 3, 5, -1),
   DuePhrase(<<"2", "0", "2", "6", "u5E74", "1", "u6708", "1", "0", "u65E5">>, 2026, 1, 10, -1),
   DuePhrase(<<"2", "0", "2", "6", "-", "0", "1", "-", "1", "0", " ", "3", "/", "5">>, 2026, 1, 10, -1), DuePhrase(<<"3", "/", "5", " ", "u660E", "u65E5">>, 0, 3, 5, -1),
   DuePhrase(<<"u4ECA", "u65E5">>, 0, 0, 0, 0), DuePhrase(<<"u660E", "u65E5">>, 0, 0, 0, 1), DuePhrase(<<"u660E", "u5F8C", "u65E5">>, 0, 0, 0, 2),
   DuePhrase(<<>>, 0, 0, 0, -1), DuePhrase(<<"u6765", "u9031">>, 0, 0, 0, -1)}

\* a time phrase and the time it names; no phrase stands for 18:00
DueClock(text, hh, mm) == [text |-> text, hh |-> hh, mm |-> mm]

DueTimes ==
  {DueClock(<<>>, 18, 0), DueClock(<<" ", "1", "8", ":", "3", "0">>, 18, 30), DueClock(<<" ", "8", "uFF1A", "1", "5">>, 8, 15),
   DueClock(<<" ", "9", "u6642", "5", "u5206">>, 9, 5), DueClock(<<" ", "7", "u6642">>, 7, 0), DueClock(<<" ", "u6B63", "u5348">>, 12, 0),
   DueClock(<<" ", "u4ECA", "u591C">>, 21, 0)}

InitDue ==
  \E i \in DueInstants, dp \in DueDates, tp \in DueTimes :
    /\ tasks = <<>> /\ projects = <<>> /\ templates = <<>>
    /\ templateCache = [loaded |-> FALSE, data |-> <<>>, expMs |-> 0]
    /\ pendingBySpace = [s \in {} |-> NoPending]
    /\ now = i.now
    /\ handlers = [k \in {"w1"} |-> [Idle EXCEPT !.pc = "due", !.text = dp.text \o tp.text]]

NextDue == \E k \in Workers : ParseDueAt(k)

SpecDue == InitDue /\ [][NextDue]_vars

----------------------------------------------------------------------------
(* SpecTrigger: LINE messages that call the bot, or only look as if they   *)
(* did.  Each case holds a text and whether it calls the bot.              *)

TriggerCase(text, calls) == [text |-> text, calls |-> calls]

\* [@＠]\s*KAI\s*bot under the i flag
Mentions == {<<"@", "K", "A", "I", " ", "b", "o", "t">>, <<"uFF20", "K", "A", "I", " ", "b", "o", "t">>, <<"@", "k", "a", "i", " ", "B", "O", "T">>, <<"@", " ", "K", "A", "I", " ", " ", "b", "o", "t">>, <<"@", "K", "A", "I", "b", "o", "t">>, <<"uFF20", " ", "K", "a", "i", "u3000", "B", "o", "t">>}

WakeWords == {<<"u30DC", "u30C3", "u30C8">>, <<"u307C", "u3063", "u3068">>, <<"u304A", "u30FC", "u3044">>}

\* what may follow a wake word at the head: nothing, whitespace, punctuation
WakeFollowers ==
  {<<>>, <<" ", "x">>, <<"u3000", "x">>, <<"u3001", "x">>, <<",", "x">>, <<"u3002">>, <<".", "x">>, <<"!">>, <<"uFF01", "x">>, <<"?">>, <<"uFF1F", "x">>, <<":", "x">>, <<"uFF1A", "x">>}

MentionCases ==
  {TriggerCase(t, TRUE) :
     t \in UNION {{m, m \o <<" ", "x">>, <<"x", " ">> \o m, <<"u3088", "u308D", "u3057", "u304F">> \o m \o <<"x">>} : m \in Mentions}}

WakeCases ==
  {TriggerCase(t, TRUE) :
     t \in UNION {{w \o f : f \in WakeFollowers} \cup {<<"u3000">> \o w \o <<" ", "x">>, <<" ">> \o w} : w \in WakeWords}}

\* the wake word after other words, or with other text right after it, and
\* the bot's name without the @
OrdinaryCases ==
  {TriggerCase(t, FALSE) :
     t \in UNION {{<<"u3088", "u308D", "u3057", "u304F">> \o w, <<"x", " ">> \o w \o <<" ", "x">>, w \o <<"u306B", "u4F1D", "u3048", "u3066">>, w \o <<"x">>, <<"x", "u3001">> \o w \o <<"u3002">>}
                  : w \in WakeWords}
           \cup {<<"K", "A", "I", " ", "b", "o", "t", " ", "x">>, <<"K", "A", "I", " ", "b", "o", "t">>, <<"@", "K", "A", "I">>, <<"@", "b", "o", "t", " ", "K", "A", "I">>, <<"x">>, <<"u30DC", "u30C3", " ", "u30C8">>, <<"@", "u30DC", "u30C3", "u30C8">>}}

TriggerCases == MentionCases \cup WakeCases \cup OrdinaryCases

TriggerEvents == {Event("S1", "U1", c.text) : c \in TriggerCases}

InitTrigger ==
  InitWith(<<SeedTask(1, "S1", <<"a", "b", "c">>)>>, <<>>, <<TemplateRow(<<"u30BF", "u30B9", "u30AF", "u4E00", "u89A7">>, Cmd("list_tasks"), 0)>>,
           {"w1"})

NextTrigger ==
  \/ \E k \in Workers, e \in TriggerEvents : LineWebhook(k, e)
  \/ \E k \in Workers : LineRoute(k)
  \/ \E k \in Workers : MatchTemplate(k)
  \/ \E k \in Workers : ReadTemplates(k)
  \/ \E k \in Workers : InstallTemplates(k)
  \/ \E k \in Workers : Parse(k, {NoCmd})

SpecTrigger == InitTrigger /\ [][NextTrigger]_vars

----------------------------------------------------------------------------
(* SpecScenario: members of two group chats ask for the minutes to be      *)
(* written by tomorrow 18:00.  No rule of the table reads the sentence, so *)
(* the command is what the language model answers.                         *)

ScenarioText == <<"@", "K", "A", "I", " ", "b", "o", "t", " ", "u8B70", "u4E8B", "u9332", "u4F5C", "u6210", "u3092", "u660E", "u65E5", "1", "8", "u6642", "u307E", "u3067", "u306B", "u8FFD", "u52A0">>

\* the model call fails, or the model names the task, with or without a due
\* date of its own
ScenarioReplies ==
  {NoCmd, [Cmd("create_task") EXCEPT !.title = <<"u8B70", "u4E8B", "u9332", "u4F5C", "u6210">>],
   [Cmd("create_task") EXCEPT !.title = <<"u8B70", "u4E8B", "u9332", "u4F5C", "u6210">>, !.due_at = <<"2", "0", "2", "5", "-", "1", "2", "-", "2", "5", " ", "0", "9", ":", "0", "0">>]}

ScenarioEvents == {Event("S1", "U1", ScenarioText), Event("S2", "U2", ScenarioText)}

InitScenario == InitWith(<<>>, <<>>, <<>>, {"w1"})

NextScenario ==
  \/ \E k \in Workers, e \in ScenarioEvents : LineWebhook(k, e)
  \/ \E k \in Workers : LineRoute(k)
  \/ \E k \in Workers : MatchTemplate(k)
  \/ \E k \in Workers : ReadTemplates(k)
  \/ \E k \in Workers : InstallTemplates(k)
  \/ \E k \in Workers : Parse(k, ScenarioReplies)
  \/ \E k \in Workers : Record(k)
  \/ \E k \in Workers : Recorded(k)
  \/ \E k \in Workers : BuildRow(k)
  \/ \E k \in Workers : AppendRow(k)
  \/ Tick

SpecScenario == InitScenario /\ [][NextScenario]_vars

----------------------------------------------------------------------------
(* SpecList: the lists of three group chats.  S1 holds more live tasks and *)
(* projects than a list shows, below a deleted row and a row of S2; S2     *)
(* holds one task, which its member may delete; S3 holds nothing.          *)

ListedTasks == 23
ListedProjects == 53

ListTitle(n) == <<"t">> \o NumText(n)

ListTasks ==
  [n \in 1..ListedTasks |->
     IF n = 1 THEN SeedTask(n, "S2", ListTitle(n))
     ELSE IF n = 2 THEN [SeedTask(n, "S1", ListTitle(n)) EXCEPT !.status = <<"D", "e", "l", "e", "t", "e", "d">>]
     ELSE SeedTask(n, "S1", ListTitle(n))]

ListProjects ==
  [n \in 1..ListedProjects |->
     IF n = 1 THEN SeedProject(n, "S2", ListTitle(n))
     ELSE IF n = 2 THEN [SeedProject(n, "S1", ListTitle(n)) EXCEPT !.status = <<"d", "e", "l", "e", "t", "e", "d">>]
     ELSE SeedProject(n, "S1", ListTitle(n))]

ListLineEvents ==
  {Event(s, "U1", t) : s \in {"S1", "S2", "S3"}, t \in {<<"@", "K", "A", "I", " ", "b", "o", "t", " ", "u30BF", "u30B9", "u30AF", "u4E00", "u89A7">>, <<"@", "K", "A", "I", " ", "b", "o", "t", " ", "u30D7", "u30ED", "u30B8", "u30A7", "u30AF", "u30C8", "u4E00", "u89A7">>}}
  \cup {Event("S2", "U1", t) : t \in {<<"@", "K", "A", "I", " ", "b", "o", "t", " ", "d", "e", "l", "e", "t", "e", " ", "t", "1">>, <<"@", "K", "A", "I", " ", "b", "o", "t", " ", "t", "1", " ", "u30D7", "u30ED", "u30B8", "u30A7", "u30AF", "u30C8", "u524A", "u9664">>}}

ListDiscordEvents == {Event(s, "U1", <<"l", "i", "s", "t", " ", "t", "a", "s", "k", "s">>) : s \in {"S1", "S2"}}

\* the Templates row was typed into the sheet with blanks around its action
InitList ==
  InitWith(ListTasks, ListProjects,
           <<[TemplateRow(<<"u30BF", "u30B9", "u30AF", "u4E00", "u89A7">>, Cmd("list_tasks"), 0) EXCEPT !.action = " list_tasks "]>>, {"w1"})

NextList ==
  \/ \E k \in Workers, e \in ListLineEvents : LineWebhook(k, e)
  \/ \E k \in Workers, e \in ListDiscordEvents : DiscordInteraction(k, e)
  \/ \E k \in Workers : LineRoute(k)
  \/ \E k \in Workers : DiscordRoute(k)
  \/ \E k \in Workers : MatchTemplate(k)
  \/ \E k \in Workers : ReadTemplates(k)
  \/ \E k \in Workers : InstallTemplates(k)
  \/ \E k \in Workers : Record(k)
  \/ \E k \in Workers : Recorded(k)
  \/ \E k \in Workers : List(k)
  \/ \E k \in Workers : Find(k)
  \/ \E k \in Workers : Stamp(k)
  \/ \E k \in Workers : ReadRow(k)
  \/ \E k \in Workers : PatchRow(k)
  \/ \E k \in Workers : WriteRow(k)

SpecList == InitList /\ [][NextList]_vars

----------------------------------------------------------------------------
(* SpecFallback: parseCommandFromText on utterances no rule reads, at      *)
(* three instants, for every kind of answer of the language model.         *)

FallbackTexts ==
  {<<"x", "y">>, <<"x", "y", "u3092", "u660E", "u65E5", "u307E", "u3067">>, <<"x", "y", " ", "1", "2", "/", "2", "5", " ", "9", ":", "3", "0">>, <<"u30D7", "u30ED", "u30B8", "u30A7", "u30AF", "u30C8", "p", "x", "u306E", "x", "y">>, <<"\"", "p", "x", "\"", " ", "p", "r", "o", "j", "e", "c", "t", "u306E", "x", "y">>, <<"u8B70", "u4E8B", "u9332", "u4F5C", "u6210", "u3092", "u660E", "u65E5", "1", "8", "u6642", "u307E", "u3067", "u306B", "u8FFD", "u52A0">>,
   <<"p", "x", "u30D7", "u30ED", "u30B8", "u30A7", "u30AF", "u30C8", "u306E", "x", "y">>, <<"x", "y", " ", "u4ECA", "u591C">>}

ModelObjects ==
  {NoObject,
   ("action" :> "create_task") @@ ("title" :> <<"x", "y">>),
   ("action" :> "create_task") @@ ("title" :> <<"x", "y">>) @@ ("due_at" :> <<"2", "0", "2", "6", "-", "0", "1", "-", "1", "0", " ", "1", "8", ":", "0", "0">>),
   ("title" :> <<"x", "y">>) @@ ("project_title" :> <<"p", "z">>),
   ("action" :> "") @@ ("query" :> <<"x", "y">>),
   ("action" :> "ask_user") @@ ("question" :> <<"w", "h", "i", "c", "h", "?">>) @@ ("next_action" :> "update_task")}

ModelAnswers ==
  {Answer("error", NoObject), Answer("notjson", NoObject), Answer("null", NoObject)}
  \cup {Answer("object", o) : o \in ModelObjects}

InitFallback ==
  /\ tasks = <<>> /\ projects = <<>> /\ templates = <<>>
  /\ templateCache = [loaded |-> FALSE, data |-> <<>>, expMs |-> 0]
  /\ pendingBySpace = [s \in {} |-> NoPending]
  /\ now \in Instants
  /\ \E t \in FallbackTexts :
       handlers = [k \in {"w1"} |-> [Idle EXCEPT !.pc = "fallback", !.text = t, !.stripped = t]]

NextFallback == \E k \in Workers, a \in ModelAnswers : ParseFallback(k, a)

SpecFallback == InitFallback /\ [][NextFallback]_vars

----------------------------------------------------------------------------
(* SpecRequests: whole requests on both platforms.  A LINE request carries *)
(* up to three events; the Tasks sheet takes one more row and then every   *)
(* append fails, as a store call fails.                                    *)

MaxBatch == 2

BatchEvents ==
  {Event("S1", "U1", t) : t \in {<<"@", "K", "A", "I", " ", "b", "o", "t", " ", "t", "a", "s", "k", ":", " ", "x", "y">>, <<"@", "K", "A", "I", " ", "b", "o", "t", " ", "u30BF", "u30B9", "u30AF", "u4E00", "u89A7">>, <<"a", "b", "c">>}}

\* the sequences of at most n events
RECURSIVE Batches(_)
Batches(n) ==
  IF n = 0 THEN {<<>>}
  ELSE Batches(n - 1) \cup {Append(b, e) : b \in {x \in Batches(n - 1) : Len(x) = n - 1}, e \in BatchEvents}

LineRequests ==
  {Request(TRUE, "message", b) : b \in Batches(MaxBatch)}
  \cup {Request(TRUE, "message",
                <<Event("S1", "U1", <<"@", "K", "A", "I", " ", "b", "o", "t", " ", "t", "a", "s", "k", ":", " ", "x", "y">>), Event("S1", "U1", <<"@", "K", "A", "I", " ", "b", "o", "t", " ", "t", "a", "s", "k", ":", " ", "x", "y">>),
                  Event("S1", "U1", <<"@", "K", "A", "I", " ", "b", "o", "t", " ", "u30BF", "u30B9", "u30AF", "u4E00", "u89A7">>)>>),
        Request(FALSE, "message", <<Event("S1", "U1", <<"@", "K", "A", "I", " ", "b", "o", "t", " ", "t", "a", "s", "k", ":", " ", "x", "y">>)>>)}

DiscordRequests ==
  {Request(TRUE, "command", <<Event("S1", "U1", t)>>) : t \in {<<"t", "a", "s", "k", ":", " ", "x", "y">>, <<"l", "i", "s", "t", " ", "t", "a", "s", "k", "s">>}}
  \cup {Request(TRUE, "ping", <<>>), Request(FALSE, "command", <<Event("S1", "U1", <<"t", "a", "s", "k", ":", " ", "x", "y">>)>>),
        Request(TRUE, "command", <<Event("S1", "", <<"t", "a", "s", "k", ":", " ", "x", "y">>)>>)}

InitRequests ==
  InitWith(<<SeedTask(1, "S1", <<"a", "b", "c">>)>>, <<>>, <<TemplateRow(<<"u30BF", "u30B9", "u30AF", "u4E00", "u89A7">>, Cmd("list_tasks"), 0)>>,
           {"w1"})

\* the steps of a handler after its request arrived
HandlerStep(k) ==
  \/ NextEvent(k)
  \/ LineRoute(k)
  \/ DiscordRoute(k)
  \/ MatchTemplate(k)
  \/ ReadTemplates(k)
  \/ InstallTemplates(k)
  \/ Parse(k, {NoCmd})
  \/ Record(k)
  \/ Recorded(k)
  \/ List(k)
  \/ BuildRow(k)
  \/ AppendRow(k)

NextRequests ==
  \/ \E k \in Workers, r \in LineRequests : LineRequest(k, r)
  \/ \E k \in Workers, r \in DiscordRequests : DiscordRequest(k, r)
  \/ \E k \in Workers : HandlerStep(k)

SpecRequests == InitRequests /\ [][NextRequests]_vars


----------------------------------------------------------------------------
(* SpecQuick: regexQuickParse on utterances that one or several rules      *)
(* read, run again as the days pass.  Each case holds the action of the    *)
(* first rule, in the order of the table, whose words the text holds.      *)

QuickCase(text, action) == [text |-> text, action |-> action]

QuickCases ==
  {QuickCase(<<"u30BF", "u30B9", "u30AF", "u4E00", "u89A7">>, "list_tasks"), QuickCase(<<"u30D7", "u30ED", "u30B8", "u30A7", "u30AF", "u30C8", "u4E00", "u89A7", " ", "u5B8C", "u4E86">>, "list_projects"),
   QuickCase(<<"p", "x", " ", "u30D7", "u30ED", "u30B8", "u30A7", "u30AF", "u30C8", "u5B8C", "u4E86">>, "update_project"), QuickCase(<<"p", "x", " ", "u30D7", "u30ED", "u30B8", "u30A7", "u30AF", "u30C8", "u518D", "u958B">>, "update_project"),
   QuickCase(<<"p", "x", " ", "u30D7", "u30ED", "u30B8", "u30A7", "u30AF", "u30C8", "u524A", "u9664">>, "delete_project"), QuickCase(<<"u30D7", "u30ED", "u30B8", "u30A7", "u30AF", "u30C8", "u5B8C", "u4E86">>, "update_project"),
   QuickCase(<<"p", "r", "o", "j", "e", "c", "t", " ", "d", "o", "n", "e">>, "update_project"), QuickCase(<<"u30D7", "u30ED", "u30B8", "u30A7", "u30AF", "u30C8", "u524A", "u9664">>, "delete_project"),
   QuickCase(<<"a", "b", "c", " ", "u5B8C", "u4E86">>, "complete_task"), QuickCase(<<"a", "b", "c", " ", "u518D", "u958B">>, "reopen_task"),
   QuickCase(<<"a", "b", "c", " ", "u5B8C", "u4E86", "u3057", "u3066", "u524A", "u9664">>, "complete_task"), QuickCase(<<"a", "b", "c", " ", "u524A", "u9664">>, "delete_task"),
   QuickCase(<<"u524A", "u9664", " ", "t", "a", "s", "k", ":", " ", "x", "y">>, "delete_task"), QuickCase(<<"t", "a", "s", "k", ":", " ", "x", "y", " ", "/", " ", "u671F", "u9650", ":", " ", "u660E", "u65E5">>, "create_task"),
   QuickCase(<<"t", "a", "s", "k", ":", " ", "x", "y", " ", "u5909", "u66F4">>, "create_task"), QuickCase(<<"u30D7", "u30ED", "u30B8", "u30A7", "u30AF", "u30C8", "p", "x", "u306B", "x", "y", "u3092", "u8FFD", "u52A0">>, "create_task"),
   QuickCase(<<"p", "r", "o", "j", "e", "c", "t", ":", " ", "p", "y">>, "create_project"), QuickCase(<<"p", "y", "u30D7", "u30ED", "u30B8", "u30A7", "u30AF", "u30C8", "u3092", "u4F5C", "u6210">>, "create_project"),
   QuickCase(<<"a", "b", "c", "u306E", "u671F", "u9650", "u3092", "u660E", "u65E5", "u306B", "u5909", "u66F4">>, "update_task"), QuickCase(<<"a", "b", "c", "u306E", "u671F", "u9650", "u3092", "1", "/", "1", "0", "u306B", "u5909", "u66F4">>, "update_task"),
   QuickCase(<<"a", "b", "c", "u306E", "u671F", "u9650", "u3092", "2", "0", "2", "6", "-", "0", "1", "-", "1", "0", "u306B", "u5909", "u66F4">>, "update_task"),
   QuickCase(<<"a", "b", "c", "u306E", "u30B9", "u30C6", "u30FC", "u30BF", "u30B9", "u3092", "u9032", "u884C", "u4E2D", "u306B", "u5909", "u66F4">>, "update_task"),
   QuickCase(<<"u30D7", "u30ED", "u30B8", "u30A7", "u30AF", "u30C8", "p", "x", "u306B", "a", "b", "c", "u3092", "u79FB", "u52D5">>, "update_task"), QuickCase(<<"x", "y">>, "")}

\* 2025-12-20, the day after, and 2026-01-01
QuickInstants == {0, MsPerDay, 12 * MsPerDay}

InitQuick ==
  /\ tasks = <<>> /\ projects = <<>> /\ templates = <<>>
  /\ templateCache = [loaded |-> FALSE, data |-> <<>>, expMs |-> 0]
  /\ pendingBySpace = [s \in {} |-> NoPending]
  /\ now = 0
  /\ \E c \in QuickCases :
       handlers = [k \in {"w1"} |-> [Idle EXCEPT !.pc = "quick", !.text = c.text, !.stripped = c.text]]

NextQuick ==
  \/ \E k \in Workers : QuickParse(k)
  \/ DayPasses(QuickInstants)

SpecQuick == InitQuick /\ [][NextQuick]_vars

----------------------------------------------------------------------------
(* SpecDueRows: rows get their due dates, from the labeled template, from  *)
(* the update rule and from the language model.                            *)

DueRowTexts ==
  {<<"@", "K", "A", "I", " ", "b", "o", "t", " ", "t", "a", "s", "k", ":", " ", "x", "y", " ", "/", " ", "u671F", "u9650", ":", " ", "u6765", "u9031">>, <<"@", "K", "A", "I", " ", "b", "o", "t", " ", "t", "a", "s", "k", ":", " ", "x", "y", " ", "/", " ", "u671F", "u9650", ":", " ", "u660E", "u65E5">>, <<"@", "K", "A", "I", " ", "b", "o", "t", " ", "t", "a", "s", "k", ":", " ", "x", "y", " ", "/", " ", "d", "u", "e", ":", " ", "2", "0", "2", "6", "-", "0", "1", "-", "1", "0", " ", "1", "8", ":", "0", "0">>,
   <<"@", "K", "A", "I", " ", "b", "o", "t", " ", "p", "r", "o", "j", "e", "c", "t", ":", " ", "p", "y", " ", "/", " ", "d", "u", "e", ":", " ", "a", "s", "a", "p">>, <<"@", "K", "A", "I", " ", "b", "o", "t", " ", "a", "b", "c", "u306E", "u671F", "u9650", "u3092", "1", "/", "1", "0", "u306B", "u5909", "u66F4">>, <<"@", "K", "A", "I", " ", "b", "o", "t", " ", "x", "y">>}

DueRowEvents == {Event("S1", "U1", t) : t \in DueRowTexts}

\* the model names a task, with a due date in words or without one
DueRowReplies ==
  {[Cmd("create_task") EXCEPT !.title = <<"x", "y">>, !.due_at = <<"u6765", "u9031", "u306E", "u91D1", "u66DC">>],
   [Cmd("create_task") EXCEPT !.title = <<"x", "y">>]}

InitDueRows ==
  InitWith(<<SeedTask(1, "S1", <<"a", "b", "c">>)>>, <<>>, <<TemplateRow(<<"u30BF", "u30B9", "u30AF", "u4E00", "u89A7">>, Cmd("list_tasks"), 0)>>,
           {"w1"})

NextDueRows ==
  \/ \E k \in Workers, e \in DueRowEvents : LineWebhook(k, e)
  \/ \E k \in Workers : LineRoute(k)
  \/ \E k \in Workers : MatchTemplate(k)
  \/ \E k \in Workers : ReadTemplates(k)
  \/ \E k \in Workers : InstallTemplates(k)
  \/ \E k \in Workers : Parse(k, DueRowReplies)
  \/ \E k \in Workers : Record(k)
  \/ \E k \in Workers : Recorded(k)
  \/ \E k \in Workers : Find(k)
  \/ \E k \in Workers : Stamp(k)
  \/ \E k \in Workers : ReadRow(k)
  \/ \E k \in Workers : PatchRow(k)
  \/ \E k \in Workers : WriteRow(k)
  \/ \E k \in Workers : BuildRow(k)
  \/ \E k \in Workers : AppendRow(k)

SpecDueRows == InitDueRows /\ [][NextDueRows]_vars

----------------------------------------------------------------------------
(* SpecUpdate: task and project rows are edited, one command at a time.    *)

UpdateTexts ==
  {<<"@", "K", "A", "I", " ", "b", "o", "t", " ", "a", "b", "c", "u306E", "u671F", "u9650", "u3092", "1", "/", "1", "0", "u306B", "u5909", "u66F4">>, <<"@", "K", "A", "I", " ", "b", "o", "t", " ", "a", "b", "c", "u306E", "u30B9", "u30C6", "u30FC", "u30BF", "u30B9", "u3092", "d", "o", "i", "n", "g", "u306B", "u5909", "u66F4">>, <<"@", "K", "A", "I", " ", "b", "o", "t", " ", "u671F", "u9650", "u3092", "1", "/", "1", "0", "u306B", "u5909", "u66F4">>,
   <<"@", "K", "A", "I", " ", "b", "o", "t", " ", "a", "u306E", "u671F", "u9650", "u3092", "1", "/", "1", "0", "u306B", "u5909", "u66F4">>, <<"@", "K", "A", "I", " ", "b", "o", "t", " ", "z", "z", "u306E", "u671F", "u9650", "u3092", "1", "/", "1", "0", "u306B", "u5909", "u66F4">>, <<"@", "K", "A", "I", " ", "b", "o", "t", " ", "p", "y", "u30D7", "u30ED", "u30B8", "u30A7", "u30AF", "u30C8", "u306E", "u671F", "u9650", "u3092", "1", "/", "1", "0", "u306B", "u5909", "u66F4">>,
   <<"@", "K", "A", "I", " ", "b", "o", "t", " ", "d", "e", "l", "e", "t", "e", " ", "a", "b", "d">>, <<"@", "K", "A", "I", " ", "b", "o", "t", " ", "a", "b", "c", "u3092", "u76F4", "u3057", "u3066">>}

UpdateEvents == {Event("S1", "U1", t) : t \in UpdateTexts}

\* the model names the task to edit and nothing to change, or a new title
UpdateReplies ==
  {[Cmd("update_task") EXCEPT !.query = <<"a", "b", "c">>],
   [Cmd("update_task") EXCEPT !.query = <<"a", "b", "c">>, !.new_title = <<"a", "b", "z">>]}

InitUpdate ==
  InitWith(<<SeedTask(1, "S2", <<"a", "b", "c">>), SeedTask(2, "S1", <<"a", "b", "c">>), SeedTask(3, "S1", <<"a", "b", "d">>)>>,
           <<SeedProject(1, "S1", <<"p", "y">>)>>,
           <<TemplateRow(<<"u30BF", "u30B9", "u30AF", "u4E00", "u89A7">>, Cmd("list_tasks"), 0)>>, {"w1"})

NextUpdate ==
  \/ \E k \in Workers, e \in UpdateEvents : LineWebhook(k, e)
  \/ \E k \in Workers : LineRoute(k)
  \/ \E k \in Workers : MatchTemplate(k)
  \/ \E k \in Workers : ReadTemplates(k)
  \/ \E k \in Workers : InstallTemplates(k)
  \/ \E k \in Workers : Parse(k, UpdateReplies)
  \/ \E k \in Workers : Record(k)
  \/ \E k \in Workers : Recorded(k)
  \/ \E k \in Workers : Find(k)
  \/ \E k \in Workers : Stamp(k)
  \/ \E k \in Workers : ReadRow(k)
  \/ \E k \in Workers : PatchRow(k)
  \/ \E k \in Workers : WriteRow(k)

SpecUpdate == InitUpdate /\ [][NextUpdate]_vars

----------------------------------------------------------------------------
(* SpecDeleteLoop: one delete command names several tasks or projects.     *)

DeleteLoopTexts ==
  {<<"@", "K", "A", "I", " ", "b", "o", "t", " ", "d", "e", "l", "e", "t", "e", " ", "a", "b", "c", "u3001", "z", "z", "u3001", "a", "b", "d">>, <<"@", "K", "A", "I", " ", "b", "o", "t", " ", "d", "e", "l", "e", "t", "e", " ", "a", ",", "a", "b", "d">>, <<"@", "K", "A", "I", " ", "b", "o", "t", " ", "d", "e", "l", "e", "t", "e", " ", "a", "b", "c", ",", "a", "b", "c">>,
   <<"@", "K", "A", "I", " ", "b", "o", "t", " ", "p", "x", "u30D7", "u30ED", "u30B8", "u30A7", "u30AF", "u30C8", "u3001", "p", "y", "u30D7", "u30ED", "u30B8", "u30A7", "u30AF", "u30C8", "u3092", "u524A", "u9664">>, <<"@", "K", "A", "I", " ", "b", "o", "t", " ", "a", "b", "c", "u3068", "a", "b", "d", "u3092", "u7247", "u4ED8", "u3051", "u3066">>}

DeleteLoopLineEvents == {Event("S1", "U1", t) : t \in DeleteLoopTexts}

DeleteLoopDiscordEvents == {Event("S1", "U1", <<"d", "e", "l", "e", "t", "e", " ", "a", "b", "d", "u3001", "a", "b", "c">>)}

\* the model names two tasks, one on each line of the query
DeleteLoopReplies == {[Cmd("delete_task") EXCEPT !.query = <<"a", "b", "c", "\n", "a", "b", "d">>]}

InitDeleteLoop ==
  InitWith(<<SeedTask(1, "S1", <<"a", "b", "c">>), SeedTask(2, "S1", <<"a", "b", "d">>), SeedTask(3, "S2", <<"a", "b", "c">>)>>,
           <<SeedProject(1, "S1", <<"p", "x">>), SeedProject(2, "S1", <<"p", "y">>)>>,
           <<TemplateRow(<<"u30BF", "u30B9", "u30AF", "u4E00", "u89A7">>, Cmd("list_tasks"), 0)>>, {"w1"})

NextDeleteLoop ==
  \/ \E k \in Workers, e \in DeleteLoopLineEvents : LineWebhook(k, e)
  \/ \E k \in Workers, e \in DeleteLoopDiscordEvents : DiscordInteraction(k, e)
  \/ \E k \in Workers : LineRoute(k)
  \/ \E k \in Workers : DiscordRoute(k)
  \/ \E k \in Workers : MatchTemplate(k)
  \/ \E k \in Workers : ReadTemplates(k)
  \/ \E k \in Workers : InstallTemplates(k)
  \/ \E k \in Workers : Parse(k, DeleteLoopReplies)
  \/ \E k \in Workers : Record(k)
  \/ \E k \in Workers : Recorded(k)
  \/ \E k \in Workers : Find(k)
  \/ \E k \in Workers : Stamp(k)
  \/ \E k \in Workers : ReadRow(k)
  \/ \E k \in Workers : PatchRow(k)
  \/ \E k \in Workers : WriteRow(k)

SpecDeleteLoop == InitDeleteLoop /\ [][NextDeleteLoop]_vars

----------------------------------------------------------------------------
(* SpecUnknown: utterances no stage resolves into a command of the set.    *)

UnknownTexts == {<<"@", "K", "A", "I", " ", "b", "o", "t", " ", "u3053", "u3093", "u306B", "u3061", "u306F">>, <<"@", "K", "A", "I", " ", "b", "o", "t", " ", "u30BF", "u30B9", "u30AF", "u4F5C", "u6210", " ", "x", "y">>, <<"@", "K", "A", "I", " ", "b", "o", "t", " ", "u30D7", "u30ED", "u30B8", "u30A7", "u30AF", "u30C8", "u767B", "u9332">>, <<"@", "K", "A", "I", " ", "b", "o", "t", " ", "a", "b", "c", "u3092", "u6D88", "u53BB">>}

UnknownLineEvents == {Event("S1", "U1", t) : t \in UnknownTexts}

UnknownDiscordEvents == {Event("S1", "U1", t) : t \in {<<"u3053", "u3093", "u306B", "u3061", "u306F">>, <<"u30BF", "u30B9", "u30AF", "u4F5C", "u6210", " ", "x", "y">>}}

\* the model fails, answers unknown with slots filled in, or names an action
\* the executor does not know
UnknownReplies ==
  {NoCmd,
   [Cmd("unknown") EXCEPT !.title = <<"x", "y">>, !.query = <<"a", "b", "c">>, !.status = <<"d", "o", "n", "e">>],
   [Cmd("archive_task") EXCEPT !.query = <<"a", "b", "c">>]}

InitUnknown ==
  InitWith(<<SeedTask(1, "S1", <<"a", "b", "c">>)>>, <<SeedProject(1, "S1", <<"p", "x">>)>>,
           <<TemplateRow(<<"u30BF", "u30B9", "u30AF", "u4E00", "u89A7">>, Cmd("list_tasks"), 0)>>, {"w1"})

NextUnknown ==
  \/ \E k \in Workers, e \in UnknownLineEvents : LineWebhook(k, e)
  \/ \E k \in Workers, e \in UnknownDiscordEvents : DiscordInteraction(k, e)
  \/ \E k \in Workers : LineRoute(k)
  \/ \E k \in Workers : DiscordRoute(k)
  \/ \E k \in Workers : MatchTemplate(k)
  \/ \E k \in Workers : ReadTemplates(k)
  \/ \E k \in Workers : InstallTemplates(k)
  \/ \E k \in Workers : Parse(k, UnknownReplies)
  \/ \E k \in Workers : Record(k)
  \/ \E k \in Workers : Recorded(k)
  \/ \E k \in Workers : Arm(k)
  \/ \E k \in Workers : BuildRow(k)
  \/ \E k \in Workers : AppendRow(k)
  \/ \E k \in Workers : Settle(k)

SpecUnknown == InitUnknown /\ [][NextUnknown]_vars

----------------------------------------------------------------------------
(* SpecRetry: an empty Templates sheet, a model whose calls may fail, and  *)
(* users who say the same thing again.                                     *)

RetryEvents == {Event("S1", "U1", t) : t \in {<<"@", "K", "A", "I", " ", "b", "o", "t", " ", "x", "y", "u3092", "u7247", "u4ED8", "u3051", "u3066">>, <<"@", "K", "A", "I", " ", "b", "o", "t", " ", "u3053", "u3093", "u306B", "u3061", "u306F">>}}

\* the call fails (transport error, or no JSON in the answer), or the model
\* resolves the utterance
RetryReplies == {NoCmd, [Cmd("create_task") EXCEPT !.title = <<"x", "y">>]}

InitRetry == InitWith(<<>>, <<>>, <<>>, {"w1"})

NextRetry ==
  \/ \E k \in Workers, e \in RetryEvents : LineWebhook(k, e)
  \/ \E k \in Workers : LineRoute(k)
  \/ \E k \in Workers : MatchTemplate(k)
  \/ \E k \in Workers : ReadTemplates(k)
  \/ \E k \in Workers : InstallTemplates(k)
  \/ \E k \in Workers : Parse(k, RetryReplies)
  \/ \E k \in Workers : Record(k)
  \/ \E k \in Workers : Recorded(k)
  \/ \E k \in Workers : BuildRow(k)
  \/ \E k \in Workers : AppendRow(k)
  \/ Tick

SpecRetry == InitRetry /\ [][NextRetry]_vars

----------------------------------------------------------------------------
(* SpecLastWrite: two requests in flight at once edit the same rows.       *)

LastWriteTexts ==
  {<<"@", "K", "A", "I", " ", "b", "o", "t", " ", "a", "b", "c", "u306E", "u671F", "u9650", "u3092", "1", "/", "1", "0", "u306B", "u5909", "u66F4">>, <<"@", "K", "A", "I", " ", "b", "o", "t", " ", "p", "y", "u30D7", "u30ED", "u30B8", "u30A7", "u30AF", "u30C8", "u306E", "u671F", "u9650", "u3092", "1", "/", "1", "0", "u306B", "u5909", "u66F4">>,
   <<"@", "K", "A", "I", " ", "b", "o", "t", " ", "d", "e", "l", "e", "t", "e", " ", "a", "b", "c">>, <<"@", "K", "A", "I", " ", "b", "o", "t", " ", "p", "y", "u30D7", "u30ED", "u30B8", "u30A7", "u30AF", "u30C8", "u3092", "u524A", "u9664">>}

LastWriteEvents == {Event("S1", "U1", t) : t \in LastWriteTexts}

InitLastWrite ==
  InitWith(<<SeedTask(1, "S2", <<"a", "b", "c">>), SeedTask(2, "S1", <<"a", "b", "c">>)>>,
           <<SeedProject(1, "S1", <<"p", "y">>)>>,
           <<TemplateRow(<<"u30BF", "u30B9", "u30AF", "u4E00", "u89A7">>, Cmd("list_tasks"), 0)>>, {"w1", "w2"})

NextLastWrite ==
  \/ \E k \in Workers, e \in LastWriteEvents : LineWebhook(k, e)
  \/ \E k \in Workers : LineRoute(k)
  \/ \E k \in Workers : MatchTemplate(k)
  \/ \E k \in Workers : ReadTemplates(k)
  \/ \E k \in Workers : InstallTemplates(k)
  \/ \E k \in Workers : Record(k)
  \/ \E k \in Workers : Recorded(k)
  \/ \E k \in Workers : Find(k)
  \/ \E k \in Workers : Stamp(k)
  \/ \E k \in Workers : ReadRow(k)
  \/ \E k \in Workers : PatchRow(k)
  \/ \E k \in Workers : WriteRow(k)

SpecLastWrite == InitLastWrite /\ [][NextLastWrite]_vars

----------------------------------------------------------------------------
(* SpecFollowUps: the bot asks one user for a task name, and the answers   *)
(* arrive in webhook requests of their own, in flight at once.             *)

FollowUpEvents == {Event("S1", "U1", t) : t \in {<<"@", "K", "A", "I", " ", "b", "o", "t", " ", "u30BF", "u30B9", "u30AF", "u8FFD", "u52A0">>, <<"@", "K", "A", "I", " ", "b", "o", "t", " ", "x", "y">>, <<"@", "K", "A", "I", " ", "b", "o", "t", " ", "z", "z">>}}

InitFollowUps ==
  InitWith(<<>>, <<>>, <<TemplateRow(<<"u30BF", "u30B9", "u30AF", "u4E00", "u89A7">>, Cmd("list_tasks"), 0)>>, {"w1", "w2"})

NextFollowUps ==
  \/ \E k \in Workers, e \in FollowUpEvents : LineWebhook(k, e)
  \/ \E k \in Workers : LineRoute(k)
  \/ \E k \in Workers : MatchTemplate(k)
  \/ \E k \in Workers : ReadTemplates(k)
  \/ \E k \in Workers : InstallTemplates(k)
  \/ \E k \in Workers : Parse(k, {NoCmd})
  \/ \E k \in Workers : Record(k)
  \/ \E k \in Workers : Recorded(k)
  \/ \E k \in Workers : Arm(k)
  \/ \E k \in Workers : BuildRow(k)
  \/ \E k \in Workers : AppendRow(k)
  \/ \E k \in Workers : Settle(k)

SpecFollowUps == InitFollowUps /\ [][NextFollowUps]_vars

----------------------------------------------------------------------------
(* SpecSpaces: a LINE group and a Discord channel whose members name each  *)
(* other's rows; the channel has a task, the group adds its own.           *)

SpacesLineTexts ==
  {<<"@", "K", "A", "I", " ", "b", "o", "t", " ", "d", "o", "n", "e", " ", "t", "s", "k", "_", "0", "_", "1">>, <<"@", "K", "A", "I", " ", "b", "o", "t", " ", "d", "o", "n", "e", " ", "t", "s", "k", "_", "0", "_", "2">>, <<"@", "K", "A", "I", " ", "b", "o", "t", " ", "d", "e", "l", "e", "t", "e", " ", "t", "s", "k", "_", "0", "_", "1">>, <<"@", "K", "A", "I", " ", "b", "o", "t", " ", "d", "e", "l", "e", "t", "e", " ", "a", "b">>,
   <<"@", "K", "A", "I", " ", "b", "o", "t", " ", "t", "s", "k", "_", "0", "_", "1", "u306E", "u671F", "u9650", "u3092", "1", "/", "1", "0", "u306B", "u5909", "u66F4">>, <<"@", "K", "A", "I", " ", "b", "o", "t", " ", "p", "r", "j", "_", "0", "_", "2", " ", "u30D7", "u30ED", "u30B8", "u30A7", "u30AF", "u30C8", "u524A", "u9664">>, <<"@", "K", "A", "I", " ", "b", "o", "t", " ", "t", "a", "s", "k", ":", " ", "x", "y">>,
   <<"@", "K", "A", "I", " ", "b", "o", "t", " ", "u30BF", "u30B9", "u30AF", "u4E00", "u89A7">>}

SpacesLineEvents == {Event("S1", "U1", t) : t \in SpacesLineTexts}

SpacesDiscordEvents ==
  {Event("S2", "U2", t) : t \in {<<"d", "o", "n", "e", " ", "t", "s", "k", "_", "0", "_", "2">>, <<"d", "o", "n", "e", " ", "t", "s", "k", "_", "0", "_", "1">>, <<"d", "e", "l", "e", "t", "e", " ", "x">>, <<"l", "i", "s", "t", " ", "t", "a", "s", "k", "s">>}}

InitSpaces ==
  InitWith(<<SeedTask(1, "S2", <<"a", "b", "d">>)>>,
           <<SeedProject(1, "S1", <<"p", "x">>), SeedProject(2, "S2", <<"p", "y">>)>>,
           <<TemplateRow(<<"u30BF", "u30B9", "u30AF", "u4E00", "u89A7">>, Cmd("list_tasks"), 0)>>, {"w1"})

NextSpaces ==
  \/ \E k \in Workers, e \in SpacesLineEvents : LineWebhook(k, e)
  \/ \E k \in Workers, e \in SpacesDiscordEvents : DiscordInteraction(k, e)
  \/ \E k \in Workers : LineRoute(k)
  \/ \E k \in Workers : DiscordRoute(k)
  \/ \E k \in Workers : MatchTemplate(k)
  \/ \E k \in Workers : ReadTemplates(k)
  \/ \E k \in Workers : InstallTemplates(k)
  \/ \E k \in Workers : Record(k)
  \/ \E k \in Workers : Recorded(k)
  \/ \E k \in Workers : List(k)
  \/ \E k \in Workers : Find(k)
  \/ \E k \in Workers : Stamp(k)
  \/ \E k \in Workers : ReadRow(k)
  \/ \E k \in Workers : PatchRow(k)
  \/ \E k \in Workers : WriteRow(k)
  \/ \E k \in Workers : BuildRow(k)
  \/ \E k \in Workers : AppendRow(k)

SpecSpaces == InitSpaces /\ [][NextSpaces]_vars

----------------------------------------------------------------------------
(* The earlier revision of the LINE handler      src/unnamed/part_000      *)
(* Its complete_task and reopen_task hand the identifier of the command    *)
(* to sheetsUpdateTask without a lookup.                                   *)

EarlierKwDone == <<<<"u30BF", "u30B9", "u30AF", "u5B8C", "u4E86">>, <<"u5B8C", "u4E86">>, <<"d", "o", "n", "e">>>>
EarlierKwReopen == <<<<"u30BF", "u30B9", "u30AF", "u518D", "u958B">>, <<"u672A", "u5B8C", "u4E86">>, <<"u623B", "u3059">>, <<"r", "e", "o", "p", "e", "n">>>>

\* (?:words)\s+(tsk_[0-9a-z]+_[0-9a-z]+) at position i, i flag
EarlierIdAfterAt(words, t, i) ==
  LET tl == toLowerCase(t)
      idAt(k) == i + Len(words[k]) + spanSpace(t, i + Len(words[k]))
      hits == {k \in 1..Len(words) :
                 /\ StartsAt(tl, i, words[k])
                 /\ spanSpace(t, i + Len(words[k])) >= 1
                 /\ TaskIdAt(t, idAt(k)).ok}
  IN IF hits = {} THEN None ELSE TaskIdAt(t, idAt(Min(hits)))

\* src/unnamed/part_000:536-547  create task (label)
EarlierLabelTask(t) ==
  LET task(mTitle) ==
        IF mTitle.ok
        THEN [Cmd("create_task") EXCEPT
                !.title = mTitle.val,
                !.due_at = LabelOr(Labeled(KwDueLabel, t)),
                !.status = LabelOr(Labeled(KwStatusLabel, t))]
        ELSE NoCmd
  IN task(Labeled(KwTask, t))

\* src/unnamed/part_000:521-562  regexQuickParse: list, complete, reopen,
\* create task (label), create project (label), in this order.  Its list
\* rules (526-527) and its project label rule (549-559) are the expressions
\* of src/index.js:1040-1041 and 1145-1155.
EarlierQuickParse(text) ==
  LET t == normalizeText(text)
      mDone == FirstMatch(LAMBDA tt, i : EarlierIdAfterAt(EarlierKwDone, tt, i), t)
      mReopen == FirstMatch(LAMBDA tt, i : EarlierIdAfterAt(EarlierKwReopen, tt, i), t)
  IN FirstCmd(<<RuleList(t),
                IF mDone.ok THEN [Cmd("complete_task") EXCEPT !.task_id = mDone.id] ELSE NoCmd,
                IF mReopen.ok THEN [Cmd("reopen_task") EXCEPT !.task_id = mReopen.id] ELSE NoCmd,
                EarlierLabelTask(t),
                RuleLabelProject(t)>>)

\* src/unnamed/part_000:564-592  parseCommandFromText: help for a text that
\* is empty once stripped, else the quick parse, else the model's reply with
\* its keys normalised, unknown when the call fails or names no action
EarlierParsed(stripped, reply) ==
  IF stripped = <<>> THEN Cmd("help")
  ELSE IF EarlierQuickParse(stripped) # NoCmd THEN EarlierQuickParse(stripped)
  ELSE IF reply.action = "" THEN Cmd("unknown")
  ELSE reply

\* src/unnamed/part_000:768-801  create_project / create_task: the row to
\* append, or the question for the name
EarlierOnCreate(h, kind) ==
  LET title == trim(IF kind = "project" /\ h.cmd.title = <<>> THEN h.cmd.project_title
                    ELSE h.cmd.title)
      d == [title |-> title, description |-> h.cmd.description, status |-> OrOpen(h.cmd.status),
            due_at |-> h.cmd.due_at,
            project_id |-> IF kind = "task" THEN h.cmd.project_id ELSE <<>>]
  IN IF title = <<>> THEN Done(Say(h, "need_title", <<>>))
     ELSE [h EXCEPT !.op = "create", !.kind = kind, !.draft = d, !.pc = "build"]

\* src/unnamed/part_000:724-808  the branch of the command parsed: the reply
\* for a missing space identifier, the menu, a list, complete_task /
\* reopen_task whose patch goes to sheetsUpdateTask with the command's
\* task_id, a create, or the hint for any other action
EarlierDispatch(h, cmd, clock) ==
  LET h1 == [h EXCEPT !.cmd = cmd, !.kind = "task", !.mode = "single"]
      a == cmd.action
  IN IF h.spaceId = "" THEN Done(Say(h1, "no_space", <<>>))
     ELSE IF a = "help" THEN Done(Say(h1, "menu", <<>>))
     ELSE IF a \in {"list_tasks", "list_projects"} THEN [h1 EXCEPT !.pc = "list"]
     ELSE IF a \in {"complete_task", "reopen_task"}
     THEN IF cmd.task_id = <<>> THEN Done(Say(h1, "need_target", <<>>))
          ELSE [h1 EXCEPT !.op = IF a = "complete_task" THEN "complete" ELSE "reopen",
                          !.target = cmd.task_id,
                          !.patch = IF a = "complete_task"
                                    THEN ("status" :> <<"d", "o", "n", "e">>) @@ ("done_at" :> toISOString(clock))
                                    ELSE ("status" :> <<"o", "p", "e", "n">>) @@ ("done_at" :> <<>>),
                          !.pc = "readRow"]
     ELSE IF a = "create_project" THEN EarlierOnCreate(h1, "project")
     ELSE IF a = "create_task" THEN EarlierOnCreate(h1, "task")
     ELSE Done(Say(h1, "fallback", <<>>))

\* src/unnamed/part_000:611-722  POST /line/webhook with the one text message
\* event e, up to the call of parseCommandFromText
EarlierAccepted(e) ==
  LET h == [Idle EXCEPT !.platform = "line", !.response = "200", !.spaceId = e.spaceId,
                        !.userId = e.userId, !.text = e.text,
                        !.stripped = stripTriggerPrefix(e.text)]
  IN IF ~isTriggeredText(e.text) THEN Done(h)
     ELSE IF h.stripped = <<>> THEN Done(Say(h, "menu", <<>>))
     ELSE [h EXCEPT !.pc = "parse"]

EarlierWebhook(k, e) ==
  /\ Free(k)
  /\ Become(k, EarlierAccepted(e))
  /\ UNCHANGED <<tasks, projects, templates, templateCache, pendingBySpace, now>>

\* src/unnamed/part_000:720-808  parseCommandFromText has returned: the
\* branch of the command is taken
EarlierParse(k, replies) ==
  /\ At(k, "parse")
  /\ \E r \in replies : Become(k, EarlierDispatch(handlers[k], EarlierParsed(handlers[k].stripped, r), now))
  /\ UNCHANGED <<tasks, projects, templates, templateCache, pendingBySpace, now>>

\* src/unnamed/part_000:278-287, 316-325  formatTaskList / formatProjectList:
\* the fixed sentence for no row, else one line per row with its title, due
\* date, status as stored and identifier
EarlierFormatList(kind, rows) ==
  IF rows = <<>> THEN [tag |-> IF kind = "task" THEN "no_tasks" ELSE "no_projects", body |-> <<>>]
  ELSE [tag |-> "list",
        body |-> [i \in 1..Len(rows) |->
                    [title |-> rows[i].title,
                     due |-> IF rows[i].due_at # <<>> THEN rows[i].due_at ELSE <<"u306A", "u3057">>,
                     status |-> IF rows[i].status # <<>> THEN rows[i].status ELSE <<"(", "u672A", "u8A2D", "u5B9A", ")">>,
                     id |-> IF kind = "task" THEN rows[i].task_id ELSE rows[i].project_id]]]

\* src/unnamed/part_000:736-746  list_tasks / list_projects: the first 20
\* tasks or 50 projects of the space, the rows of every status
\* (part_000:246-276, 289-314)
EarlierList(k) ==
  LET h == handlers[k]
      msg == IF h.cmd.action = "list_tasks"
             THEN EarlierFormatList("task", sheetsGetTasksBySpace(tasks, h.spaceId, 20, TRUE))
             ELSE EarlierFormatList("project", sheetsGetProjectsBySpace(projects, h.spaceId, 50, TRUE))
  IN /\ At(k, "list")
     /\ Become(k, Done(Say(h, msg.tag, msg.body)))
     /\ UNCHANGED <<tasks, projects, templates, templateCache, pendingBySpace, now>>

\* src/unnamed/part_000:330-376  sheetsAppendProject / sheetsAppendTask, the
\* functions of src/index.js:524-572: the header was read and the row is
\* built, then the row reaches the sheet; a throw is caught with a reply
\* (part_000:813-822)
EarlierBuildRow(k) == BuildRow(k)

EarlierAppendRow(k) == AppendRow(k)

\* src/unnamed/part_000:427-431  the cells sheetsUpdateTask sets on the row
EarlierApplyTaskPatch(row, patch, clock) ==
  [f \in DOMAIN row |->
     IF f = "updated_at" THEN IF f \in DOMAIN patch THEN patch[f] ELSE toISOString(clock)
     ELSE IF f \in DOMAIN patch /\ f \in {"status", "due_at", "done_at"} THEN patch[f]
     ELSE row[f]]

\* src/unnamed/part_000:397-415  sheetsUpdateTask: the row holding the
\* identifier is looked for in the whole sheet and the read of its cells is
\* served; the throw for no such row is caught with a reply (part_000:813-822)
EarlierReadRow(k) ==
  LET h == handlers[k]
      n == sheetsFindRowById(tasks, "task", trim(h.target))
  IN /\ At(k, "readRow")
     /\ Become(k, IF n = 0 THEN Done(Say(h, "error", <<>>))
                  ELSE [h EXCEPT !.rowNumber = n, !.row = <<tasks[n]>>,
                                 !.cells = RowCells(TaskHeader, tasks[n]), !.pc = "patchRow"])
     /\ UNCHANGED <<tasks, projects, templates, templateCache, pendingBySpace, now>>

\* src/unnamed/part_000:417-431  the cells have arrived: the patch and the
\* instant are written into the array, which grows to hold them
EarlierPatchRow(k) ==
  LET h == handlers[k]
  IN /\ At(k, "patchRow")
     /\ Become(k, [h EXCEPT !.row = <<EarlierApplyTaskPatch(@[1], h.patch, now)>>,
                            !.cells = CellsSet(TaskHeader, @,
                                               (DOMAIN h.patch \cap {"status", "due_at", "done_at"})
                                                 \cup {"updated_at"}),
                            !.pc = "writeRow"])
     /\ UNCHANGED <<tasks, projects, templates, templateCache, pendingBySpace, now>>

\* src/unnamed/part_000:433-438  values.update: the cells of the array
\* replace the first cells of the row; then the reply  (754, 764)
EarlierWriteRow(k) ==
  LET h == handlers[k]
  IN /\ At(k, "writeRow")
     /\ tasks' = [tasks EXCEPT ![h.rowNumber] = RowUpdated(TaskHeader, @, h.row[1], h.cells)]
     /\ Become(k, Done(Say(h, "updated", <<[title |-> <<>>, id |-> h.target]>>)))
     /\ UNCHANGED <<projects, templates, templateCache, pendingBySpace, now>>

EarlierTexts ==
  {<<"@", "K", "A", "I", " ", "b", "o", "t", " ", "d", "o", "n", "e", " ", "t", "s", "k", "_", "0", "_", "1">>, <<"@", "K", "A", "I", " ", "b", "o", "t", " ", "d", "o", "n", "e", " ", "t", "s", "k", "_", "0", "_", "2">>, <<"@", "K", "A", "I", " ", "b", "o", "t", " ", "u30BF", "u30B9", "u30AF", "u518D", "u958B", " ", "t", "s", "k", "_", "0", "_", "2">>, <<"@", "K", "A", "I", " ", "b", "o", "t", " ", "r", "e", "o", "p", "e", "n", " ", "t", "s", "k", "_", "0", "_", "9">>,
   <<"@", "K", "A", "I", " ", "b", "o", "t", " ", "a", "b", "d", "u3092", "u7247", "u4ED8", "u3051", "u305F">>, <<"u3053", "u3093", "u306B", "u3061", "u306F">>, <<"@", "K", "A", "I", " ", "b", "o", "t">>,
   <<"@", "K", "A", "I", " ", "b", "o", "t", " ", "u30BF", "u30B9", "u30AF", "u4E00", "u89A7">>, <<"@", "K", "A", "I", " ", "b", "o", "t", " ", "l", "i", "s", "t", " ", "p", "r", "o", "j", "e", "c", "t", "s">>, <<"@", "K", "A", "I", " ", "b", "o", "t", " ", "t", "a", "s", "k", ":", " ", "x", "y", " ", "/", " ", "s", "t", "a", "t", "u", "s", ":", " ", "d", "o", "i", "n", "g">>,
   <<"@", "K", "A", "I", " ", "b", "o", "t", " ", "u30D7", "u30ED", "u30B8", "u30A7", "u30AF", "u30C8", ":", " ", "p", "q">>, <<"@", "K", "A", "I", " ", "b", "o", "t", " ", "t", "a", "s", "k", ":", " ", "/">>}

\* messages of group S1, and one of a source that names no group, room or
\* user
EarlierEvents ==
  {Event("S1", "U1", t) : t \in EarlierTexts} \cup {Event("", "", <<"@", "K", "A", "I", " ", "b", "o", "t", " ", "u30BF", "u30B9", "u30AF", "u4E00", "u89A7">>)}

\* the model's answers: none, a command naming a task or none, the menu, a
\* project named by project_title only
EarlierReplies ==
  {NoCmd, [Cmd("complete_task") EXCEPT !.task_id = <<"t", "s", "k", "_", "0", "_", "2">>], Cmd("complete_task"),
   Cmd("help"),
   [Cmd("create_project") EXCEPT !.project_title = <<" ", "p", "q", " ">>]}

InitEarlier ==
  InitWith(<<SeedTask(1, "S1", <<"a", "b", "c">>), [SeedTask(2, "S2", <<"a", "b", "d">>) EXCEPT !.status = <<"d", "o", "n", "e">>]>>,
           <<SeedProject(1, "S1", <<"p", "y">>)>>, <<>>, {"w1"})

NextEarlier ==
  \/ \E k \in Workers, e \in EarlierEvents : EarlierWebhook(k, e)
  \/ \E k \in Workers : EarlierParse(k, EarlierReplies)
  \/ \E k \in Workers : EarlierList(k)
  \/ \E k \in Workers : EarlierReadRow(k)
  \/ \E k \in Workers : EarlierPatchRow(k)
  \/ \E k \in Workers : EarlierWriteRow(k)
  \/ \E k \in Workers : EarlierBuildRow(k)
  \/ \E k \in Workers : EarlierAppendRow(k)
  \/ Tick

SpecEarlier == InitEarlier /\ [][NextEarlier]_vars

----------------------------------------------------------------------------
(* SpecRecord: two requests of one group at once, with utterances that     *)
(* differ in case at most, while the template cache is fresh and after it  *)
(* expired.                                                                *)

RecordTexts == {<<"@", "K", "A", "I", " ", "b", "o", "t", " ", "l", "i", "s", "t", " ", "t", "a", "s", "k", "s">>, <<"@", "K", "A", "I", " ", "b", "o", "t", " ", "L", "i", "s", "t", " ", "T", "a", "s", "k", "s">>}

RecordEvents == {Event("S1", "U1", t) : t \in RecordTexts}

InitRecord == InitWith(<<SeedTask(1, "S1", <<"a", "b", "c">>)>>, <<>>, <<>>, {"w1", "w2"})

NextRecord ==
  \/ \E k \in Workers, e \in RecordEvents : LineWebhook(k, e)
  \/ \E k \in Workers : LineRoute(k)
  \/ \E k \in Workers : MatchTemplate(k)
  \/ \E k \in Workers : ReadTemplates(k)
  \/ \E k \in Workers : InstallTemplates(k)
  \/ \E k \in Workers : RecordWithin(k, MaxRacingTemplates)
  \/ \E k \in Workers : Recorded(k)
  \/ \E k \in Workers : List(k)
  \/ Tick

SpecRecord == InitRecord /\ [][NextRecord]_vars

----------------------------------------------------------------------------
(* SpecMiss: the bot waits for a name while time passes, and the answers   *)
(* name no row, several rows, or nothing at all.                           *)

MissLineTexts == {<<"@", "K", "A", "I", " ", "b", "o", "t", " ", "d", "e", "l", "e", "t", "e", " ", "t", "a", "s", "k">>, <<"a", "b">>, <<"z", "z">>, <<"@", "K", "A", "I", " ", "b", "o", "t", " ", "a", "b">>, <<"a", "b", "c">>, <<"p">>}

MissLineEvents == {Event("S1", "U1", t) : t \in MissLineTexts}

MissDiscordTexts == {<<"u30BF", "u30B9", "u30AF", "u8FFD", "u52A0">>, <<"u3000">>}

\* the model's answers: none, or a delete that names no project
MissReplies == {NoCmd, Cmd("delete_project")}

MissDiscordEvents == {Event("S2", "U2", t) : t \in MissDiscordTexts}

InitMiss ==
  InitWith(<<SeedTask(1, "S1", <<"a", "b", "c">>), SeedTask(2, "S1", <<"a", "b", "d">>)>>,
           <<SeedProject(1, "S1", <<"p", "x">>), SeedProject(2, "S1", <<"p", "y">>)>>,
           <<TemplateRow(<<"u30BF", "u30B9", "u30AF", "u4E00", "u89A7">>, Cmd("list_tasks"), 0)>>, {"w1"})

NextMiss ==
  \/ \E k \in Workers, e \in MissLineEvents : LineWebhook(k, e)
  \/ \E k \in Workers, e \in MissDiscordEvents : DiscordInteraction(k, e)
  \/ \E k \in Workers : LineRoute(k)
  \/ \E k \in Workers : DiscordRoute(k)
  \/ \E k \in Workers : MatchTemplate(k)
  \/ \E k \in Workers : ReadTemplates(k)
  \/ \E k \in Workers : InstallTemplates(k)
  \/ \E k \in Workers : Parse(k, MissReplies)
  \/ \E k \in Workers : Record(k)
  \/ \E k \in Workers : Recorded(k)
  \/ \E k \in Workers : Arm(k)
  \/ \E k \in Workers : Find(k)
  \/ \E k \in Workers : Stamp(k)
  \/ \E k \in Workers : ReadRow(k)
  \/ \E k \in Workers : PatchRow(k)
  \/ \E k \in Workers : WriteRow(k)
  \/ \E k \in Workers : Settle(k)
  \/ Tick

SpecMiss == InitMiss /\ [][NextMiss]_vars

----------------------------------------------------------------------------
(* Properties                                                              *)

\* worker k takes the step it is waiting at pc for
Stepped(k, pc) == handlers[k].pc = pc /\ handlers'[k] # handlers[k]

\* the pcs of a handler between the routing of its command and the executor
Resolving ==
  {"parse", "loading", "loaded", "llm", "reloading", "reloaded", "record", "recorded"}

\* worker k's matchTemplate gets its rows in this step, from the fresh cache
\* or from the sheet as it was read, and these are the rows
MatchesNow(k) == Stepped(k, "loaded") \/ (Stepped(k, "parse") /\ CacheFresh(templateCache))

MatchData(k) == IF handlers[k].pc = "loaded" THEN handlers[k].snapshot ELSE templateCache.data

\* the command of worker k becomes known in this step
Resolved(k) ==
  /\ handlers[k].pc \in {"parse", "loaded", "llm"} /\ handlers'[k] # handlers[k]
  /\ handlers'[k].pc \notin {"loading", "llm"}

\* the pcs of a handler between a lookup that found one row and the write
Updating == {"stamp", "readRow", "patchRow", "writeRow"}

\* the pending action of space s is bound to user u and has not expired
Waiting(s, u) ==
  /\ s \in DOMAIN pendingBySpace
  /\ pendingBySpace[s].userId = u
  /\ now <= pendingBySpace[s].expiresAt

LastOut(h) == h.out[Len(h.out)]

\* C1  On LINE, while a pending action bound to (space, user) has not
\* expired, whatever its action tag, the next text message of that user in
\* that space, with or without the trigger, is taken as the answer to the
\* pending question (its slot value, or its cancellation) and is not parsed as
\* a new command.
C1_FollowUpFillsSlot ==
  [][\A k \in Workers :
       (/\ Stepped(k, "received")
        /\ handlers[k].platform = "line"
        /\ Waiting(handlers[k].spaceId, handlers[k].userId))
       => handlers'[k].route \in {"slot", "cancel"}]_vars

\* C2  Arming a pending action for one user leaves in place the unexpired
\* pending action another user has in the same space.
C2_ArmKeepsOtherUsers ==
  [][\A k \in Workers :
       (/\ Stepped(k, "arm")
        /\ handlers[k].spaceId \in DOMAIN pendingBySpace
        /\ pendingBySpace[handlers[k].spaceId].userId # handlers[k].userId
        /\ now <= pendingBySpace[handlers[k].spaceId].expiresAt)
       => /\ handlers[k].spaceId \in DOMAIN pendingBySpace'
          /\ pendingBySpace'[handlers[k].spaceId] = pendingBySpace[handlers[k].spaceId]]_vars

\* a read of the pending table by worker k: every routing step but the one
\* that answers a bare call of the bot with the menu
PendingReadBy(k) == Stepped(k, "received") /\ handlers'[k].asked

\* C3  An entry armed at t expires at t + 5 minutes.  A read strictly after
\* that instant treats the entry as absent, whoever reads, and removes it; a
\* read by the bound user at or before that instant returns the entry.
C3_ExpiryOnRead ==
  [][\A k \in Workers :
       /\ Stepped(k, "arm")
          => pendingBySpace'[handlers[k].spaceId] =
               [action |-> handlers[k].arm, userId |-> handlers[k].userId,
                expiresAt |-> now + 5 * 60 * 1000]
       /\ (PendingReadBy(k) /\ handlers[k].spaceId \in DOMAIN pendingBySpace)
          => /\ now > pendingBySpace[handlers[k].spaceId].expiresAt
                => /\ handlers'[k].pending = NoPending
                   /\ handlers'[k].route \notin {"slot", "cancel"}
                   /\ handlers[k].spaceId \notin DOMAIN pendingBySpace'
             /\ Waiting(handlers[k].spaceId, handlers[k].userId)
                => handlers'[k].pending = pendingBySpace[handlers[k].spaceId]]_vars

\* a member answered after the entry had expired, and the answer was ignored
C3_Witness ==
  \E k \in Workers :
    /\ handlers[k].asked /\ handlers[k].had # NoPending
    /\ handlers[k].at > handlers[k].had.expiresAt
    /\ handlers[k].pending = NoPending /\ handlers[k].route = "ignored"
    /\ handlers[k].spaceId \notin DOMAIN pendingBySpace

\* C4  When a lookup for complete, reopen, update or delete finds more than
\* one live entity, the handler sends a disambiguation message that lists at
\* most five of the candidates, each with its identifier, and performs no
\* operation for that query: no row changes, and a handler only ever goes on
\* to a write with exactly one match.
C4_AmbiguousIsNotPerformed ==
  [][\A k \in Workers :
       /\ (Stepped(k, "find") /\ Len(handlers'[k].found) > 1)
          => /\ Len(handlers'[k].out) > Len(handlers[k].out)
             /\ handlers'[k].out[Len(handlers[k].out) + 1].tag = "ambiguous"
             /\ LET lines == handlers'[k].out[Len(handlers[k].out) + 1].body
                IN /\ Len(lines) <= 5
                   /\ Len(lines) = Min({5, Len(handlers'[k].found)})
                   /\ \A i \in 1..Len(lines) :
                        lines[i].id = handlers'[k].found[i] /\ lines[i].id # <<>>
             /\ handlers'[k].pc \notin Updating
             /\ handlers'[k].deleted = handlers[k].deleted
             /\ tasks' = tasks /\ projects' = projects
       /\ handlers'[k].pc \in Updating
          => Len(handlers'[k].found) = 1 /\ handlers'[k].target = handlers'[k].found[1]]_vars

\* a lookup found more than five live tasks and the handler listed five
C4_Witness ==
  \E k \in Workers :
    /\ handlers[k].pc = "done" /\ handlers[k].kind = "task"
    /\ Len(handlers[k].found) > 5
    /\ handlers[k].out # <<>>
    /\ LastOut(handlers[k]).tag = "ambiguous" /\ Len(LastOut(handlers[k]).body) = 5
    /\ tasks = LargeTasks

IdOf(kind, r) == IF kind = "task" THEN r.task_id ELSE r.project_id

\* the rows of a space that are not soft-deleted, in sheet order
LiveRows(rows, spaceId) ==
  SelectSeq(rows, LAMBDA r : r.group_id = spaceId /\ toLowerCase(r.status) # <<"d", "e", "l", "e", "t", "e", "d">>)

\* what a lookup of q among the rows live is to return: the row q names, or
\* else the rows whose title holds q, letter case aside
Matching(kind, live, q) ==
  LET titled == SelectSeq(live, LAMBDA r : includes(toLowerCase(r.title), toLowerCase(q)))
  IN IF q = <<>> THEN <<>>
     ELSE IF \E i \in 1..Len(live) : IdOf(kind, live[i]) = q THEN <<q>>
     ELSE [i \in 1..Len(titled) |-> IdOf(kind, titled[i])]

Sheet(kind) == IF kind = "task" THEN tasks ELSE projects

\* C5 as stated: a lookup returns the live entity of the space whose
\* identifier the query equals, else every live entity of the space whose
\* title contains the query, letter case aside; an empty query matches nothing.
C5_MatchesEveryLiveRow ==
  [][\A k \in Workers :
       Stepped(k, "find")
       => handlers'[k].found =
            Matching(handlers[k].kind, LiveRows(Sheet(handlers[k].kind), handlers[k].spaceId),
                     normalizeText(Head(handlers[k].items)))]_vars

\* C5  A lookup scans the first 200 live rows of the space in sheet order:
\* it returns the entity among them whose identifier the query equals, even
\* when several titles contain the query, else every entity among them whose
\* title contains the query, letter case aside; an empty query matches nothing.
C5_MatchesScannedRows ==
  [][\A k \in Workers :
       Stepped(k, "find")
       => handlers'[k].found =
            Matching(handlers[k].kind,
                     Take(LiveRows(Sheet(handlers[k].kind), handlers[k].spaceId), 200),
                     normalizeText(Head(handlers[k].items)))]_vars

\* a lookup by the identifier of a live task that two live titles contain
\* returned that task alone
C5_Witness ==
  \E k \in Workers :
    /\ handlers[k].kind = "task" /\ handlers[k].query # <<>>
    /\ handlers[k].found = <<handlers[k].query>>
    /\ \E i \in 1..Len(tasks) : tasks[i].task_id = handlers[k].query /\ ~IsDeleted(tasks[i])
    /\ Cardinality({i \in 1..Len(tasks) :
                      /\ ~IsDeleted(tasks[i])
                      /\ includes(toLowerCase(tasks[i].title), toLowerCase(handlers[k].query))}) >= 2

\* C6  Once a row has status "deleted", no step of any handler changes its
\* status, and it stays the only row with its identifier.
C6_DeletedIsFinal ==
  [][/\ \A i \in 1..Len(tasks) :
          toLowerCase(tasks[i].status) = <<"d", "e", "l", "e", "t", "e", "d">>
          => /\ i <= Len(tasks') /\ tasks'[i].status = tasks[i].status
             /\ \A j \in 1..Len(tasks') : tasks'[j].task_id = tasks[i].task_id => j = i
     /\ \A i \in 1..Len(projects) :
          toLowerCase(projects[i].status) = <<"d", "e", "l", "e", "t", "e", "d">>
          => /\ i <= Len(projects') /\ projects'[i].status = projects[i].status
             /\ \A j \in 1..Len(projects') :
                  projects'[j].project_id = projects[i].project_id => j = i]_vars

\* the fields a soft delete writes: the status, the deletion stamp, and the
\* modification stamp every write of a row refreshes
DeleteWrites == {"status", "deleted_at", "updated_at"}

\* the write of worker k, a delete, changes row n of rows into rows2 and
\* nothing else
OnlySoftDeletes(k, rows, rows2) ==
  /\ Len(rows2) = Len(rows)
  /\ handlers[k].rowNumber \in 1..Len(rows)
  /\ IdOf(handlers[k].kind, rows[handlers[k].rowNumber]) = handlers[k].target
  /\ \A i \in 1..Len(rows) : i # handlers[k].rowNumber => rows2[i] = rows[i]
  /\ rows2[handlers[k].rowNumber].status = <<"d", "e", "l", "e", "t", "e", "d">>
  /\ rows2[handlers[k].rowNumber].deleted_at # <<>>
  /\ \A f \in DOMAIN rows[handlers[k].rowNumber] \ DeleteWrites :
       rows2[handlers[k].rowNumber][f] = rows[handlers[k].rowNumber][f]

\* C7  No step removes a row: a sheet never gets shorter and each row keeps
\* its place and identifier.  The write of a delete changes the one targeted
\* row only, and in it only the status, which becomes "deleted", the deletion
\* stamp and the modification stamp.
C7_DeleteIsSoft ==
  [][/\ Len(tasks') >= Len(tasks) /\ Len(projects') >= Len(projects)
     /\ \A i \in 1..Len(tasks) : tasks'[i].task_id = tasks[i].task_id
     /\ \A i \in 1..Len(projects) : projects'[i].project_id = projects[i].project_id
     /\ \A k \in Workers :
          (Stepped(k, "writeRow") /\ handlers[k].op = "delete")
          => IF handlers[k].kind = "task"
             THEN OnlySoftDeletes(k, tasks, tasks') /\ projects' = projects
             ELSE OnlySoftDeletes(k, projects, projects') /\ tasks' = tasks]_vars

\* a task was added, and a task and a project were deleted at a later instant
\* than the one they were created at
C7_Witness ==
  /\ Len(tasks) = 2
  /\ tasks[1].status = <<"d", "e", "l", "e", "t", "e", "d">> /\ tasks[1].deleted_at # tasks[1].created_at
  /\ tasks[1].updated_at = tasks[1].deleted_at
  /\ tasks[2].status = <<"o", "p", "e", "n">>
  /\ projects[1].status = <<"d", "e", "l", "e", "t", "e", "d">> /\ projects[1].deleted_at # <<>>

\* C8  In every reachable state a task with status "done" has a done-at
\* stamp and a task with status "open" has none.
C8_DoneAtFollowsStatus ==
  \A i \in 1..Len(tasks) :
    /\ tasks[i].status = <<"d", "o", "n", "e">> => tasks[i].done_at # <<>>
    /\ tasks[i].status = <<"o", "p", "e", "n">> => tasks[i].done_at = <<>>

\* the messages that show rows to the user
RowMessages == {"list", "ambiguous", "created", "updated", "deleted"}

\* C9  No row has an empty title: a handler appends only a row with a title,
\* a create command or pending create without one is answered with the
\* request for a name and starts no operation, no patch carries an empty
\* title, and every row shown to a user has a title.
C9_TitleNeverEmpty ==
  /\ \A i \in 1..Len(tasks) : tasks[i].title # <<>>
  /\ \A i \in 1..Len(projects) : projects[i].title # <<>>
  /\ \A k \in Workers :
       /\ handlers[k].pc \in {"findProject", "build", "append"} /\ handlers[k].op = "create"
          => handlers[k].draft.title # <<>>
       /\ "title" \in DOMAIN handlers[k].patch => handlers[k].patch.title # <<>>
       /\ (/\ handlers[k].route = "command" /\ handlers[k].pc \notin Resolving
           /\ \/ handlers[k].cmd.action = "create_task" /\ trim(handlers[k].cmd.title) = <<>>
              \/ /\ handlers[k].cmd.action = "create_project"
                 /\ trim(handlers[k].cmd.title) = <<>>
                 /\ trim(handlers[k].cmd.project_title) = <<>>)
          => /\ handlers[k].pc = "done" /\ handlers[k].op = ""
             /\ LastOut(handlers[k]).tag = "need_title"
       /\ \A i \in 1..Len(handlers[k].out) :
            handlers[k].out[i].tag = "need_title" => handlers[k].op = ""
       /\ \A i \in 1..Len(handlers[k].out) :
            handlers[k].out[i].tag \in RowMessages
            => \A j \in 1..Len(handlers[k].out[i].body) : handlers[k].out[i].body[j].title # <<>>

\* the model named a task with a blank; the bot asked for the name and added
\* no row
C9_Witness ==
  \E k \in Workers :
    /\ handlers[k].pc = "done" /\ handlers[k].cmd.action = "create_task"
    /\ handlers[k].cmd.title = <<" ">> /\ handlers[k].op = ""
    /\ LastOut(handlers[k]).tag = "need_title"
    /\ Len(tasks) = 1

\* C10  In every reachable state the status of every task and project row is
\* one of open, doing, done, deleted.
C10_StatusIsOneOfFour ==
  /\ \A i \in 1..Len(tasks) : tasks[i].status \in {<<"o", "p", "e", "n">>, <<"d", "o", "i", "n", "g">>, <<"d", "o", "n", "e">>, <<"d", "e", "l", "e", "t", "e", "d">>}
  /\ \A i \in 1..Len(projects) : projects[i].status \in {<<"o", "p", "e", "n">>, <<"d", "o", "i", "n", "g">>, <<"d", "o", "n", "e">>, <<"d", "e", "l", "e", "t", "e", "d">>}

----------------------------------------------------------------------------
(* Properties of the pending-action table, of templates and of the parsers *)

\* the entry of space s is bound to some user other than u and has not expired
BoundToOther(s, u) ==
  /\ s \in DOMAIN pendingBySpace
  /\ pendingBySpace[s].userId \notin {"", u}
  /\ now <= pendingBySpace[s].expiresAt

\* C11  While the entry of a space is bound to one user and has not expired,
\* the message of another user of the space neither resolves nor clears it:
\* the routing step reads no entry for that user and leaves the entry as it
\* is, an untriggered message ends there with no answer and no further step,
\* a triggered one goes on as a fresh command (or is answered with the menu),
\* and a later clearPending of that user leaves the entry too.
C11_OthersLeaveEntry ==
  [][\A k \in Workers :
       /\ (/\ Stepped(k, "received") /\ handlers[k].platform = "line"
           /\ BoundToOther(handlers[k].spaceId, handlers[k].userId))
          => /\ pendingBySpace' = pendingBySpace
             /\ handlers'[k].pending = NoPending
             /\ handlers'[k].route \notin {"slot", "cancel"}
             /\ IF isTriggeredText(handlers[k].text)
                THEN handlers'[k].route \in {"command", "menu"}
                ELSE /\ handlers'[k].route = "ignored" /\ handlers'[k].pc = "done"
                     /\ handlers'[k].out = <<>>
             /\ tasks' = tasks /\ projects' = projects /\ templates' = templates
       /\ (/\ Stepped(k, "settle")
           /\ BoundToOther(handlers[k].spaceId, handlers[k].userId))
          => pendingBySpace' = pendingBySpace]_vars

\* while the bot waits for U1's answer U2 calls it with a command: the
\* routing step read no entry for U2, and the entry is still U1's
C11_Witness ==
  \E k \in Workers :
    /\ handlers[k].userId = "U2" /\ handlers[k].asked
    /\ handlers[k].route = "command" /\ handlers[k].pc = "parse"
    /\ handlers[k].had.userId = "U1" /\ handlers[k].at <= handlers[k].had.expiresAt
    /\ handlers[k].pending = NoPending
    /\ handlers[k].spaceId \in DOMAIN pendingBySpace
    /\ pendingBySpace[handlers[k].spaceId] = handlers[k].had

\* C12  When the bound user sends exactly a cancel word while the entry has
\* not expired, on LINE with or without the trigger and on Discord, the
\* routing step removes the entry, answers with the confirmation and ends the
\* handler: no row is created or changed.
C12_CancelClears ==
  [][\A k \in Workers :
       (/\ Stepped(k, "received")
        /\ Waiting(handlers[k].spaceId, handlers[k].userId)
        /\ handlers[k].text \in CancelTexts \cup {<<"u3084", "u3081", "u308B">>})
       => /\ handlers[k].spaceId \notin DOMAIN pendingBySpace'
          /\ handlers'[k].route = "cancel" /\ handlers'[k].pc = "done"
          /\ Len(handlers'[k].out) = 1 /\ handlers'[k].out[1].tag = "cancelled"
          /\ tasks' = tasks /\ projects' = projects]_vars

\* a pending creation was cancelled with the trigger on LINE
C12_Witness ==
  \E k \in Workers :
    /\ handlers[k].platform = "line" /\ handlers[k].text = <<"@", "K", "A", "I", " ", "b", "o", "t", " ", "u3084", "u3081", "u308B">>
    /\ handlers[k].had.action = "create_task" /\ handlers[k].had.userId = handlers[k].userId
    /\ handlers[k].route = "cancel" /\ handlers[k].pc = "done"
    /\ LastOut(handlers[k]).tag = "cancelled"
    /\ handlers[k].spaceId \notin DOMAIN pendingBySpace
    /\ Len(tasks) = 1 /\ Len(projects) = 1

\* C13  An entry that has not expired leaves the table only when its
\* slot-filling succeeded, when its user answered with a cancel word, or when
\* an entry is armed over it; the step that ends a successful slot-filling
\* always removes it, and the handling of any other message, a new triggered
\* command of the same user included, leaves it.
C13_LeavesOnlyWhenSettled ==
  [][\A s \in DOMAIN pendingBySpace :
       /\ (/\ now <= pendingBySpace[s].expiresAt
           /\ (s \notin DOMAIN pendingBySpace' \/ pendingBySpace'[s] # pendingBySpace[s]))
          => \E k \in Workers :
               /\ handlers[k].spaceId = s
               /\ \/ Stepped(k, "settle") /\ handlers[k].userId = pendingBySpace[s].userId
                  \/ /\ Stepped(k, "received") /\ handlers'[k].route = "cancel"
                     /\ handlers[k].userId = pendingBySpace[s].userId
                  \/ Stepped(k, "arm")
       /\ \A k \in Workers :
            (/\ Stepped(k, "settle") /\ handlers[k].spaceId = s
             /\ handlers[k].userId = pendingBySpace[s].userId)
            => s \notin DOMAIN pendingBySpace']_vars

\* C14  Once an utterance resolved to a command has been recorded, resolving
\* the same utterance again answers from the template with that command: the
\* same action and the same slot values, the title of a create_task and the
\* identifier of a complete_task included.
C14_TemplateReplaysCommand ==
  [][\A k \in Workers :
       (Stepped(k, "record") /\ templates' # templates)
       => FastCommand(TemplateData(templates'), handlers[k].stripped, now) = handlers[k].cmd]_vars

\* C15  A template answers an utterance only in the chat it was recorded
\* from: the row that resolves a message was recorded from an utterance of
\* the message's own space.
C15_TemplatesArePerSpace ==
  [][\A k \in Workers :
       MatchesNow(k)
       => LET data == MatchData(k)
              hits == TemplateHits(data, normalizeText(handlers[k].stripped))
          IN hits # {} => data[MinOr0(hits)].text \in SaidIn(handlers[k].spaceId)]_vars

\* the reference instant the clock stands at, with its local date
RefAt(t) == CHOOSE i \in DueInstants : i.now = t

\* YYYY-MM-DD and HH:MM
DateText(y, m, d) == NumText(y) \o <<"-">> \o padStart(NumText(m), 2) \o <<"-">> \o padStart(NumText(d), 2)

ClockText(hh, mm) == padStart(NumText(hh), 2) \o <<":">> \o padStart(NumText(mm), 2)

\* worker k parsed the text made of date phrase dp and time phrase tp
ParsedDue(k, dp, tp) == handlers[k].pc = "done" /\ handlers[k].text = dp.text \o tp.text

\* month m, day d falls before the local date of reference r in r's year
BeforeRef(m, d, r) == m < r.m \/ (m = r.m /\ d < r.d)

\* C16  A date phrase without a year gets the reference year, and the year
\* after it exactly when its month and day fall strictly before the
\* reference date in local time; a date on or after the reference date keeps
\* the reference year.
C16_YearRollsWhenPast ==
  \A k \in Workers, dp \in DueDates, tp \in DueTimes :
    (ParsedDue(k, dp, tp) /\ dp.y = 0 /\ dp.m # 0)
    => handlers[k].cmd.due_at =
         DateText(IF BeforeRef(dp.m, dp.d, RefAt(now)) THEN RefAt(now).y + 1 ELSE RefAt(now).y,
                  dp.m, dp.d)
         \o <<" ">> \o ClockText(tp.hh, tp.mm)

\* C17  A date with a four-digit year, written with "-", "/" or 年月日, is
\* taken with exactly that year, and it is taken before a month and day
\* without a year, which is taken before a relative day word, which counts
\* from the reference date in local time; a text with no date form gives the
\* empty result.
C17_DatePriority ==
  \A k \in Workers, dp \in DueDates, tp \in DueTimes :
    ParsedDue(k, dp, tp)
    => /\ dp.y # 0
          => handlers[k].cmd.due_at =
               DateText(dp.y, dp.m, dp.d) \o <<" ">> \o ClockText(tp.hh, tp.mm)
       /\ (dp.y = 0 /\ dp.m # 0)
          => /\ Len(handlers[k].cmd.due_at) = 16
             /\ SubSeq(handlers[k].cmd.due_at, 6, 10) = SubSeq(DateText(0, dp.m, dp.d), 3, 7)
       /\ dp.rel >= 0
          => LET day == CivilFromDays(DaysFromCivil(RefAt(now).y, RefAt(now).m, RefAt(now).d) + dp.rel)
             IN handlers[k].cmd.due_at =
                  DateText(day.y, day.m, day.d) \o <<" ">> \o ClockText(tp.hh, tp.mm)
       /\ (dp.m = 0 /\ dp.rel < 0) => handlers[k].cmd.due_at = <<>>

\* C18  Once a date is found the time is the one the text names, as HH:MM
\* or H時M分, 12:00 for 正午 and 21:00 for 今夜, and 18:00 when it names
\* none; without a date the result is empty, whatever time the text names.
C18_TimeOfDay ==
  \A k \in Workers, dp \in DueDates, tp \in DueTimes :
    ParsedDue(k, dp, tp)
    => IF dp.m # 0 \/ dp.rel >= 0
       THEN /\ Len(handlers[k].cmd.due_at) = 16
            /\ handlers[k].cmd.due_at[11] = " "
            /\ SubSeq(handlers[k].cmd.due_at, 12, 16) = ClockText(tp.hh, tp.mm)
       ELSE handlers[k].cmd.due_at = <<>>

\* "tonight" after tomorrow's date gave 21:00 on the next day
C18_Witness ==
  \E k \in Workers :
    /\ handlers[k].pc = "done" /\ handlers[k].text = <<"u660E", "u65E5", " ", "u4ECA", "u591C">> /\ now = 0
    /\ handlers[k].cmd.due_at = <<"2", "0", "2", "5", "-", "1", "2", "-", "2", "1", " ", "2", "1", ":", "0", "0">>

\* worker k holds a LINE message without the trigger, and no pending action
\* is active for its space and user
UntriggeredAndFree(k) ==
  /\ handlers[k].platform = "line"
  /\ ~isTriggeredText(handlers[k].text)
  /\ ~Waiting(handlers[k].spaceId, handlers[k].userId)
  /\ ~Waiting(handlers[k].spaceId, "")

\* the step ended the handler without a message and without touching a sheet
EndsSilently(k) ==
  /\ handlers'[k].route = "ignored" /\ handlers'[k].pc = "done"
  /\ handlers'[k].out = <<>>
  /\ tasks' = tasks /\ projects' = projects
  /\ templates' = templates /\ templateCache' = templateCache

\* C20  A LINE text message without the trigger, from a space and user with
\* no active pending action, has no effect: nothing is sent, no sheet is
\* touched, and the pending table is left as it was.
C20_UntriggeredChangesNothing ==
  [][\A k \in Workers :
       (Stepped(k, "received") /\ UntriggeredAndFree(k))
       => EndsSilently(k) /\ pendingBySpace' = pendingBySpace]_vars

\* C20, amended  ... nothing is sent, no sheet is touched, no entry is added
\* to the pending table and every entry that has not expired stays as it
\* was; an expired entry of the message's space is removed by the read.
C20_UntriggeredKeepsLiveEntries ==
  [][\A k \in Workers :
       (Stepped(k, "received") /\ UntriggeredAndFree(k))
       => /\ EndsSilently(k)
          /\ DOMAIN pendingBySpace' \subseteq DOMAIN pendingBySpace
          /\ \A s \in DOMAIN pendingBySpace :
               IF s = handlers[k].spaceId /\ handlers[k].userId # ""
                  /\ now > pendingBySpace[s].expiresAt
               THEN s \notin DOMAIN pendingBySpace'
               ELSE s \in DOMAIN pendingBySpace' /\ pendingBySpace'[s] = pendingBySpace[s]]_vars

\* U1 wrote "abc" without the trigger after the bot's question to U1 had
\* expired: the message was dropped, and the read took the expired entry away
C20_Witness ==
  \E k \in Workers :
    /\ handlers[k].pc = "done" /\ handlers[k].route = "ignored"
    /\ handlers[k].platform = "line" /\ handlers[k].userId = "U1"
    /\ handlers[k].text = <<"a", "b", "c">> /\ handlers[k].out = <<>>
    /\ handlers[k].had.userId = "U1" /\ handlers[k].at > handlers[k].had.expiresAt
    /\ handlers[k].spaceId \notin DOMAIN pendingBySpace
    /\ handlers[k].at = now

\* C19  A mention, @ or ＠ then KAI bot with any whitespace and in any
\* letter case, calls the bot wherever it stands in the message; a wake word
\* calls it only at the very start of the message and only when whitespace,
\* punctuation or the end follows; the wake word after other words, or with
\* other text right after it, does not call it.
C19_TriggerDetection ==
  \A k \in Workers, c \in TriggerCases :
    (handlers[k].text = c.text /\ handlers[k].pc \notin {"idle", "received"})
    => IF c.calls THEN handlers[k].route \in {"menu", "command"}
       ELSE handlers[k].route = "ignored" /\ handlers[k].out = <<>>

\* "ボットに伝えて" was dropped: the wake word runs into the next word
C19_Witness ==
  \E k \in Workers :
    /\ handlers[k].pc = "done" /\ handlers[k].text = <<"u30DC", "u30C3", "u30C8", "u306B", "u4F1D", "u3048", "u3066">>
    /\ handlers[k].route = "ignored" /\ handlers[k].out = <<>>

\* the local (UTC+9) day number of the clock's instant
LocalDay == RefEpochDay + FloorDiv(RefMsOfDay + JstOffsetMs + now, MsPerDay)

\* tomorrow's local date at 18:00
TomorrowAt18 ==
  DateText(CivilFromDays(LocalDay + 1).y, CivilFromDays(LocalDay + 1).m, CivilFromDays(LocalDay + 1).d)
  \o <<" ", "1", "8", ":", "0", "0">>

\* C21  The triggered message 議事録作成を明日18時までに追加 is parsed as
\* create_task with the title 議事録作成 and tomorrow's local date at 18:00
\* as its due date, and while the sheet takes rows it adds exactly one task
\* row, in the sender's space, with that title and due date and the status
\* open; the request ends only after that row was added.
C21_ScenarioCreatesTask ==
  [][\A k \in Workers :
       handlers[k].text = ScenarioText
       => /\ Resolved(k)
             => /\ handlers'[k].cmd.action = "create_task"
                /\ handlers'[k].cmd.title = <<"u8B70", "u4E8B", "u9332", "u4F5C", "u6210">>
                /\ handlers'[k].cmd.due_at = TomorrowAt18
          /\ (Stepped(k, "append") /\ Len(tasks) < MaxTasks)
             => /\ Len(tasks') = Len(tasks) + 1
                /\ SubSeq(tasks', 1, Len(tasks)) = tasks
                /\ tasks'[Len(tasks')].group_id = handlers[k].spaceId
                /\ tasks'[Len(tasks')].title = <<"u8B70", "u4E8B", "u9332", "u4F5C", "u6210">>
                /\ tasks'[Len(tasks')].due_at = TomorrowAt18
                /\ tasks'[Len(tasks')].status = <<"o", "p", "e", "n">>
          /\ (handlers[k].pc \notin {"idle", "done"} /\ handlers'[k].pc = "done")
             => handlers[k].pc = "append"]_vars

\* the rows of a sheet that belong to space s and are not soft-deleted, in
\* sheet order
LiveRowsOf(rows, s) ==
  SelectSeq(rows, LAMBDA r : r.group_id = s /\ toLowerCase(r.status) # <<"d", "e", "l", "e", "t", "e", "d">>)

\* the message shows exactly the first cap rows of live, in order
ShowsFirst(msg, live, cap) ==
  /\ msg.tag = "list"
  /\ Len(msg.body) = (IF Len(live) < cap THEN Len(live) ELSE cap)
  /\ \A j \in 1..Len(msg.body) : msg.body[j].title = live[j].title

\* C22  list_tasks and list_projects show only the rows of the sender's
\* space that are not deleted, the first 20 tasks or the first 50 projects,
\* and change no sheet; for a space without a live task, with none created
\* or all of them soft-deleted, the answer is the fixed sentence that there
\* are no tasks yet, not an empty list.
C22_ListsLiveRowsOfSpace ==
  [][\A k \in Workers :
       Stepped(k, "list")
       => /\ tasks' = tasks /\ projects' = projects /\ templates' = templates
          /\ handlers'[k].pc = "done"
          /\ Len(handlers'[k].out) = Len(handlers[k].out) + 1
          /\ IF handlers[k].cmd.action = "list_tasks"
             THEN IF LiveRowsOf(tasks, handlers[k].spaceId) = <<>>
                  THEN handlers'[k].out[Len(handlers'[k].out)] = [tag |-> "no_tasks", body |-> <<>>]
                  ELSE ShowsFirst(handlers'[k].out[Len(handlers'[k].out)],
                                  LiveRowsOf(tasks, handlers[k].spaceId), 20)
             ELSE IF LiveRowsOf(projects, handlers[k].spaceId) = <<>>
                  THEN handlers'[k].out[Len(handlers'[k].out)] = [tag |-> "no_projects", body |-> <<>>]
                  ELSE ShowsFirst(handlers'[k].out[Len(handlers'[k].out)],
                                  LiveRowsOf(projects, handlers[k].spaceId), 50)]_vars

\* the only task of S2 was soft-deleted, and the list of S2 is the sentence
\* that there are no tasks yet
C22_Witness ==
  \E k \in Workers :
    /\ handlers[k].pc = "done" /\ handlers[k].spaceId = "S2"
    /\ handlers[k].cmd.action = "list_tasks"
    /\ handlers[k].out = <<[tag |-> "no_tasks", body |-> <<>>]>>
    /\ \E i \in 1..Len(tasks) : tasks[i].group_id = "S2" /\ tasks[i].status = <<"d", "e", "l", "e", "t", "e", "d">>

\* C23  Whatever goes wrong with the call of the model or with reading its
\* answer, parseCommandFromText returns a command with the action unknown
\* and raises nothing; and every command it returns holds every slot, as a
\* text, empty when the model's JSON left it out.
C23_FallbackReturnsWholeCommand ==
  [][\A k \in Workers, a \in ModelAnswers :
       ParseFallback(k, a)
       => /\ handlers'[k].pc = "done"
          /\ a.kind # "object" => handlers'[k].cmd.action = "unknown"
          /\ handlers'[k].keys = DOMAIN Cmd("")
          /\ \A s \in DOMAIN a.obj \ {"action", "due_at", "project_title"} :
               handlers'[k].cmd[s] = a.obj[s]]_vars

\* the step of worker k is a store call that throws
StoreCallFails(k) ==
  \/ /\ Stepped(k, "append")
     /\ IF handlers[k].kind = "task" THEN Len(tasks) >= MaxTasks ELSE Len(projects) >= MaxProjects
  \/ /\ Stepped(k, "readRow")
     /\ sheetsFindRowById(IF handlers[k].kind = "task" THEN tasks ELSE projects,
                          handlers[k].kind, handlers[k].target) = 0

\* C24  The events of one LINE request are handled one after another, in
\* their order, and an exception while one of them is handled prevents none
\* of the later ones from being handled: the failing step ends its event
\* with the error message and leaves the events still to come as they were,
\* as every step of an event does, and a handler that ended an event turns
\* to the next one of the batch.
C24_BatchIsolation ==
  [][\A k \in Workers :
       handlers[k].platform = "line"
       => /\ (handlers[k].pc \notin {"idle", "done"} /\ handlers'[k] # handlers[k])
             => handlers'[k].rest = handlers[k].rest
          /\ StoreCallFails(k)
             => /\ handlers'[k].pc = "done"
                /\ handlers'[k].out = Append(handlers[k].out, [tag |-> "error", body |-> <<>>])
          /\ (Stepped(k, "done") /\ handlers[k].rest # <<>>)
             => /\ handlers'[k].pc = "received"
                /\ handlers'[k].text = Head(handlers[k].rest).text
                /\ handlers'[k].spaceId = Head(handlers[k].rest).spaceId
                /\ handlers'[k].rest = Tail(handlers[k].rest)
                /\ handlers'[k].out = handlers[k].out]_vars

\* an event of a request failed at the full sheet, and a later event of the
\* same request, the list, was answered after it
C24_Witness ==
  \E k \in Workers :
    /\ handlers[k].pc = "done" /\ handlers[k].platform = "line" /\ handlers[k].rest = <<>>
    /\ handlers[k].text = <<"@", "K", "A", "I", " ", "b", "o", "t", " ", "u30BF", "u30B9", "u30AF", "u4E00", "u89A7">>
    /\ \E i \in 1..Len(handlers[k].out) :
         /\ handlers[k].out[i].tag = "error"
         /\ handlers[k].out[Len(handlers[k].out)].tag = "list"

\* C25  Every exception raised while an event or an interaction is handled
\* after the acknowledgement, on LINE and on Discord alike, is caught where
\* the event is handled and turned into an error message for the user.
C25_EveryExceptionIsReported ==
  [][\A k \in Workers :
       StoreCallFails(k)
       => /\ handlers'[k].pc = "done"
          /\ handlers'[k].out = Append(handlers[k].out, [tag |-> "error", body |-> <<>>])]_vars

\* the acknowledgement of a platform: 200 on LINE, the deferred response on
\* Discord
AckOf(platform) == IF platform = "line" THEN "200" ELSE "deferred"

\* worker k is handling an event
Handling(k) == handlers[k].pc \notin {"idle", "done"}

\* C26  For a request with a valid signature the acknowledgement, 200 on
\* LINE and the deferred response on Discord, is sent before the handling of
\* any event starts: whoever handles an event, changes a sheet, the pending
\* table or the template cache, or sends a message, has acknowledged; and
\* nothing that happens later, a failure included, changes the response.
C26_AckBeforeProcessing ==
  [][\A k \in Workers :
       /\ Handling(k) => handlers[k].response = AckOf(handlers[k].platform)
       /\ handlers'[k].pc = "received" => handlers'[k].response = AckOf(handlers'[k].platform)
       /\ (handlers'[k] # handlers[k] /\ (Handling(k) \/ handlers[k].rest # <<>>))
          => handlers'[k].response = handlers[k].response
       /\ (handlers'[k] # handlers[k] /\ ~Handling(k) /\ handlers[k].rest = <<>>)
          => /\ <<tasks, projects, templates, templateCache, pendingBySpace>>'
                = <<tasks, projects, templates, templateCache, pendingBySpace>>
             /\ handlers'[k].out = <<>>
             /\ handlers'[k].response \in {"200", "deferred"} \/ handlers'[k].pc = "done"]_vars

\* the append of a LINE event failed after the 200 was sent: the user got the
\* error message and the response is still the 200
C26_Witness ==
  \E k \in Workers :
    /\ handlers[k].pc = "done" /\ handlers[k].platform = "line"
    /\ handlers[k].response = "200"
    /\ handlers[k].out # <<>> /\ handlers[k].out[Len(handlers[k].out)].tag = "error"
    /\ handlers[k].op = "create"

\* C27  The rule table is deterministic: for an utterance it reads, running
\* regexQuickParse again on the same text, at any later time, gives the same
\* command, its due date and status included.
C27_QuickParseIsDeterministic ==
  [][\A k \in Workers :
       (/\ handlers[k].pc = "quick" /\ handlers[k].route = "quick"
        /\ handlers[k].cmd # NoCmd /\ handlers'[k] # handlers[k])
       => handlers'[k].cmd = handlers[k].cmd]_vars

\* the text names a project and asks to complete, reopen or delete, and is
\* not a request for a list
ProjectOpText(t) ==
  /\ TestWords(KwProject, TRUE, t)
  /\ TestWords(KwComplete, TRUE, t) \/ TestWords(KwReopen, TRUE, t) \/ TestWords(KwDelete, TRUE, t)
  /\ RuleList(t) = NoCmd

\* C29  regexQuickParse answers with the first rule that reads the text, in
\* the order list, project status, task status, delete, labeled create,
\* natural create, update, move; and every text that holds a project word
\* with a complete, reopen or delete word and asks for no list gives a
\* project action, update_project to done or open or delete_project, never
\* a task action.
C29_RulePriority ==
  \A k \in Workers, c \in QuickCases :
    (handlers[k].route = "quick" /\ handlers[k].text = c.text)
    => /\ handlers[k].cmd.action = c.action
       /\ ProjectOpText(normalizeText(c.text))
          => \/ /\ handlers[k].cmd.action = "update_project"
                /\ handlers[k].cmd.status \in {<<"d", "o", "n", "e">>, <<"o", "p", "e", "n">>}
             \/ handlers[k].cmd.action = "delete_project"

\* YYYY-MM-DD HH:MM
IsDueStamp(t) ==
  /\ Len(t) = 16
  /\ \A i \in {1, 2, 3, 4, 6, 7, 9, 10, 12, 13, 15, 16} : IsDigit(t[i])
  /\ t[5] = "-" /\ t[8] = "-" /\ t[11] = " " /\ t[14] = ":"

\* C28  Every due date a create or update command writes to a task or
\* project row is empty or a local timestamp of the form YYYY-MM-DD HH:MM,
\* whether the command came from the labeled template, the rules, a learned
\* template or the language model.
C28_DueAtIsStamp ==
  /\ \A i \in 1..Len(tasks) : tasks[i].due_at = <<>> \/ IsDueStamp(tasks[i].due_at)
  /\ \A i \in 1..Len(projects) : projects[i].due_at = <<>> \/ IsDueStamp(projects[i].due_at)

\* the fields the write of an update may change: those of its patch and the
\* modification stamp
UpdateWrites(k) == DOMAIN handlers[k].patch \cup {"updated_at"}

\* the live rows of the handler's space its query matches, as the store is
UpdateMatches(k) ==
  IF handlers[k].kind = "task"
  THEN Len(findTasksByQuery(tasks, handlers[k].spaceId, handlers[k].query, 200))
  ELSE Len(findProjectsByQuery(projects, handlers[k].spaceId, handlers[k].query, 200))

\* the write of worker k, an update, changes in rows the one row its query
\* matches, and in it the patched fields only
OnlyPatches(k, rows, rows2) ==
  /\ Len(rows2) = Len(rows)
  /\ \A i \in 1..Len(rows) :
       rows2[i] # rows[i]
       => /\ IdOf(handlers[k].kind, rows[i]) = handlers[k].target
          /\ rows[i].group_id = handlers[k].spaceId
          /\ ~IsDeleted(rows[i])
          /\ \A f \in DOMAIN rows[i] \ UpdateWrites(k) : rows2[i][f] = rows[i][f]

\* C30  An update command changes the store only with a query, a patch of
\* at least one field and exactly one live match; its write changes the
\* patched fields and the modification stamp of that row, and nothing else
\* in the store.
C30_UpdateFrame ==
  [][\A k \in Workers :
       (handlers[k].op = "update" /\ handlers'[k] # handlers[k])
       => IF handlers[k].pc = "writeRow"
          THEN /\ handlers[k].query # <<>>
               /\ DOMAIN handlers[k].patch # {}
               /\ UpdateMatches(k) = 1
               /\ IF handlers[k].kind = "task"
                  THEN OnlyPatches(k, tasks, tasks') /\ projects' = projects
                  ELSE OnlyPatches(k, projects, projects') /\ tasks' = tasks
          ELSE tasks' = tasks /\ projects' = projects]_vars

\* the task abc of space S1 was given a status and then a due date, each by
\* its own update, and the task of the same title in space S2 is as it was
C30_Witness ==
  /\ \E k \in Workers :
       /\ handlers[k].op = "update" /\ handlers[k].kind = "task" /\ handlers[k].pc = "done"
       /\ handlers[k].out # <<>> /\ handlers[k].out[Len(handlers[k].out)].tag = "updated"
       /\ DOMAIN handlers[k].patch = {"due_at"}
  /\ tasks[2].status = <<"d", "o", "i", "n", "g">> /\ tasks[2].due_at = <<"2", "0", "2", "6", "-", "0", "1", "-", "1", "0", " ", "1", "8", ":", "0", "0">> /\ tasks[2].done_at = <<>>
  /\ tasks[2].title = <<"a", "b", "c">> /\ tasks[2].group_id = "S1"
  /\ tasks[1] = SeedTask(1, "S2", <<"a", "b", "c">>)

\* the live entities of the handler's space its next sub-query names
SubQueryMatches(k) ==
  Matching(handlers[k].kind, LiveRows(Sheet(handlers[k].kind), handlers[k].spaceId),
           normalizeText(Head(handlers[k].items)))

\* the delete loop of worker k goes on to its next sub-query, or ends after
\* the last one
GoesOn(k) ==
  IF Len(handlers[k].items) > 1
  THEN handlers'[k].pc = "find" /\ handlers'[k].items = Tail(handlers[k].items)
  ELSE handlers'[k].pc = "done"

\* the sub-queries of a delete command's query, in the order written
SubQueries(q) ==
  LET parts == splitQueries(q)
  IN dropEmpty([i \in 1..Len(parts) |-> sanitizeQuery(parts[i])])

\* the query of a delete command
DeleteQuery(kind, cmd) ==
  IF kind = "task" THEN Or3(cmd.task_id, cmd.query, cmd.title)
  ELSE IF cmd.project_id # <<>> THEN cmd.project_id ELSE Or3(cmd.query, cmd.project_title, cmd.title)

\* C31  A delete command handles the sub-queries of its query one by one in
\* the order written, each looked up in the store as the earlier ones left
\* it.  A sub-query with exactly one live match has that row soft-deleted
\* and no other row changed; one with no match or several changes nothing,
\* gets its own message, and the loop goes on to the next sub-query.
C31_DeleteLoop ==
  [][\A k \in Workers :
       /\ (handlers'[k].mode = "loop" /\ handlers'[k].op = "delete" /\ handlers[k].op = "")
          => /\ handlers'[k].items = SubQueries(DeleteQuery(handlers'[k].kind, handlers'[k].cmd))
             /\ handlers'[k].pc = "find"
       /\ (/\ handlers[k].mode = "loop" /\ handlers[k].op = "delete"
           /\ handlers[k].pc # "done" /\ handlers'[k] # handlers[k])
          => IF handlers[k].pc = "find"
             THEN /\ tasks' = tasks /\ projects' = projects
                  /\ IF Len(SubQueryMatches(k)) = 1
                     THEN /\ handlers'[k].pc = "stamp"
                          /\ handlers'[k].target = SubQueryMatches(k)[1]
                          /\ handlers'[k].items = handlers[k].items
                          /\ handlers'[k].out = handlers[k].out
                     ELSE /\ Len(handlers'[k].out) > Len(handlers[k].out)
                          /\ handlers'[k].out[Len(handlers[k].out) + 1].tag =
                               (IF SubQueryMatches(k) = <<>> THEN "not_found" ELSE "ambiguous")
                          /\ SubQueryMatches(k) = <<>>
                             => handlers'[k].out[Len(handlers[k].out) + 1].body = Line(Head(handlers[k].items))
                          /\ GoesOn(k)
             ELSE IF handlers[k].pc \in {"stamp", "readRow", "patchRow"}
             THEN /\ tasks' = tasks /\ projects' = projects
                  /\ handlers'[k].pc = (IF handlers[k].pc = "stamp" THEN "readRow"
                                        ELSE IF handlers[k].pc = "readRow" THEN "patchRow"
                                        ELSE "writeRow")
                  /\ handlers'[k].items = handlers[k].items
             ELSE /\ handlers[k].pc = "writeRow"
                  /\ IF handlers[k].kind = "task"
                     THEN OnlySoftDeletes(k, tasks, tasks') /\ projects' = projects
                     ELSE OnlySoftDeletes(k, projects, projects') /\ tasks' = tasks
                  /\ GoesOn(k)]_vars

\* of the three sub-queries abc, zz and abd the first and the last were
\* deleted and the second was answered with its own message
C31_Witness ==
  \E k \in Workers :
    /\ handlers[k].pc = "done" /\ handlers[k].op = "delete" /\ handlers[k].mode = "loop"
    /\ handlers[k].stripped = <<"d", "e", "l", "e", "t", "e", " ", "a", "b", "c", "u3001", "z", "z", "u3001", "a", "b", "d">>
    /\ Len(handlers[k].out) = 2
    /\ handlers[k].out[1] = [tag |-> "not_found", body |-> Line(<<"z", "z">>)]
    /\ handlers[k].out[2].tag = "deleted"
    /\ tasks[1].status = <<"d", "e", "l", "e", "t", "e", "d">> /\ tasks[2].status = <<"d", "e", "l", "e", "t", "e", "d">> /\ tasks[3].status = <<"o", "p", "e", "n">>

\* the actions the executor knows how to carry out
ClosedActions ==
  {"ask_user", "help", "list_tasks", "list_projects", "create_task", "update_task",
   "complete_task", "reopen_task", "delete_task", "create_project", "update_project",
   "delete_project"}

\* the handler of worker k holds, after the step, a command that resolved
\* to unknown or to an action outside the set
UnknownCommand(k) ==
  /\ handlers'[k] # handlers[k]
  /\ handlers'[k].cmd.action # ""
  /\ handlers'[k].cmd.action \notin ClosedActions

\* the pending action an unknown utterance arms: its intent is a delete of a
\* typed target without a name, or a create of a typed target
ArmedBy(stripped) ==
  LET intent == inferIntentFromText(stripped)
      type == IF intent.targetType = "project" THEN "project" ELSE "task"
  IN IF intent.action = "delete" /\ intent.targetType # "" /\ intent.missingTarget
     THEN "delete_" \o type
     ELSE IF intent.action = "create" /\ intent.targetType # "" THEN "create_" \o type
     ELSE ""

\* C32  A command that resolved to unknown, or to an action outside the
\* set, is never executed: no step of its handler creates or changes a task
\* or project row or starts a store operation.  The handler sends one message
\* and, where the utterance's intent is a delete of a typed target without a
\* name or a create of a typed target, arms the pending action for it.
C32_UnknownIsNotExecuted ==
  [][\A k \in Workers :
       UnknownCommand(k)
       => /\ tasks' = tasks /\ projects' = projects
          /\ handlers'[k].op = "" /\ handlers'[k].items = <<>>
          /\ handlers'[k].pc \in {"reloading", "reloaded", "record", "recorded", "arm", "done"}
          /\ handlers[k].pc \in Resolving /\ handlers'[k].pc \notin Resolving
             => /\ Len(handlers'[k].out) = Len(handlers[k].out) + 1
                /\ handlers'[k].arm =
                     (IF handlers'[k].cmd.action = "unknown" THEN ArmedBy(handlers'[k].stripped)
                      ELSE "")
                /\ handlers'[k].pc = (IF handlers'[k].arm # "" THEN "arm" ELSE "done")
          /\ handlers[k].pc = "arm"
             => /\ handlers'[k].pc = "done"
                /\ handlers[k].spaceId \in DOMAIN pendingBySpace'
                /\ pendingBySpace'[handlers[k].spaceId].action = handlers[k].arm
                /\ pendingBySpace'[handlers[k].spaceId].userId = handlers[k].userId]_vars

\* the utterance names a task to create, the model's answer is unknown with
\* its slots filled in: the pending create is armed and no row is added
C32_Witness ==
  \E k \in Workers :
    /\ handlers[k].pc = "done" /\ handlers[k].cmd.action = "unknown"
    /\ handlers[k].cmd.title = <<"x", "y">>
    /\ handlers[k].stripped = <<"u30BF", "u30B9", "u30AF", "u4F5C", "u6210", " ", "x", "y">>
    /\ handlers[k].arm = "create_task"
    /\ "S1" \in DOMAIN pendingBySpace /\ pendingBySpace["S1"].action = "create_task"
    /\ tasks = <<SeedTask(1, "S1", <<"a", "b", "c">>)>>

\* C33  A failed model call leaves nothing behind that answers for it: no
\* utterance is resolved from a template holding the unknown a failed
\* attempt ended with, so the utterance said again reaches the rules and
\* the model again.
C33_FailedCallIsNotReplayed ==
  [][\A k \in Workers :
       MatchesNow(k) => matchTemplate(MatchData(k), handlers[k].stripped).action # "unknown"]_vars

\* the copy of the row worker k read, with its patch applied
CopyOf(k) == handlers[k].row[1]

\* worker j has written row n of the sheet of this kind and ended
HasWritten(j, kind, n) ==
  handlers[j].pc = "done" /\ handlers[j].kind = kind /\ handlers[j].rowNumber = n

\* the write of worker k replaces row n of rows by its copy: the patched
\* fields take the patch's values, every other field the value k read, so
\* what another handler wrote to the row since then is lost; no other row
\* changes
ReplacesRow(k, rows, rows2) ==
  LET n == handlers[k].rowNumber
  IN /\ Len(rows2) = Len(rows) /\ n \in 1..Len(rows)
     /\ IdOf(handlers[k].kind, rows[n]) = handlers[k].target
     /\ \A i \in 1..Len(rows) : i # n => rows2[i] = rows[i]
     /\ rows2[n] = CopyOf(k)
     /\ \A f \in DOMAIN handlers[k].patch : rows2[n][f] = handlers[k].patch[f]
     /\ \A j \in Workers \ {k} :
          HasWritten(j, handlers[k].kind, n)
          => \A f \in DOMAIN handlers[j].patch \ DOMAIN handlers[k].patch :
               CopyOf(k)[f] # handlers[j].patch[f] => rows2[n][f] # handlers[j].patch[f]

\* the statement of C34 as it was made, for every handler that updates a
\* row: the write replaces the whole row by the copy read earlier with the
\* patch applied, so a field only an earlier write patched is lost, and no
\* row other than the targeted one changes.
C34_LastWriteWins ==
  [][\A k \in Workers :
       Stepped(k, "writeRow")
       => IF handlers[k].kind = "task"
          THEN ReplacesRow(k, tasks, tasks') /\ projects' = projects
          ELSE ReplacesRow(k, projects, projects') /\ tasks' = tasks]_vars

\* column i is among the cells the write of worker k carries: the columns
\* up to updated_at, which every update sets, and a column after it that k
\* patches or read filled
Carries(k, header, i) ==
  \/ i <= headerIndex(header, "updated_at")
  \/ header[i] \in DOMAIN handlers[k].patch
  \/ ~EmptyCell(header, CopyOf(k), i)

\* the write of worker k replaces, in row n of rows, the cells it carries by
\* those of its copy, and leaves the cells after them and every other row
\* as they are; of the fields another handler wrote to the row, those among
\* the cells carried are lost unless k read them so, and those after them
\* stay
ReplacesCells(k, header, rows, rows2) ==
  LET n == handlers[k].rowNumber
  IN /\ Len(rows2) = Len(rows) /\ n \in 1..Len(rows)
     /\ IdOf(handlers[k].kind, rows[n]) = handlers[k].target
     /\ \A i \in 1..Len(rows) : i # n => rows2[i] = rows[i]
     /\ \A f \in DOMAIN handlers[k].patch : rows2[n][f] = handlers[k].patch[f]
     /\ \A i \in 1..Len(header) :
          rows2[n][header[i]] = IF Carries(k, header, i) THEN CopyOf(k)[header[i]]
                                ELSE rows[n][header[i]]
     /\ \A j \in Workers \ {k} :
          HasWritten(j, handlers[k].kind, n)
          => \A f \in DOMAIN handlers[j].patch \ DOMAIN handlers[k].patch :
               IF Carries(k, header, headerIndex(header, f))
               THEN CopyOf(k)[f] # handlers[j].patch[f] => rows2[n][f] # handlers[j].patch[f]
               ELSE rows[n][f] = handlers[j].patch[f] => rows2[n][f] = handlers[j].patch[f]

\* C34  A row update is a read-modify-write without a concurrency token:
\* the write is made whatever the row holds by then and replaces the cells
\* of the row from the first column to the last one the writer read filled
\* or set, which is updated_at at least, by the copy read earlier with the
\* patch applied.  So when two handlers that update a row both read it
\* before either writes, a field among these cells that only the earlier
\* write patched is lost, and a cell after them, deleted_at of a delete,
\* stays as the earlier write left it.  No write changes a row other than
\* the targeted one.
C34_LastWriteWinsCells ==
  [][\A k \in Workers :
       Stepped(k, "writeRow")
       => IF handlers[k].kind = "task"
          THEN ReplacesCells(k, TaskHeader, tasks, tasks') /\ projects' = projects
          ELSE ReplacesCells(k, ProjectHeader, projects, projects') /\ tasks' = tasks]_vars

\* a delete of task abc and an update of its due date both read the row
\* before either wrote, and the delete wrote first: the row holds the due
\* date, the status read before the delete, and the delete's deleted_at
C34_Witness ==
  \E j, k \in Workers :
    /\ j # k
    /\ handlers[j].pc = "done" /\ handlers[j].op = "delete" /\ handlers[j].kind = "task"
    /\ handlers[k].pc = "done" /\ handlers[k].op = "update" /\ DOMAIN handlers[k].patch = {"due_at"}
    /\ LastOut(handlers[j]).tag = "deleted" /\ LastOut(handlers[k]).tag = "updated"
    /\ handlers[j].rowNumber = 2 /\ handlers[k].rowNumber = 2
    /\ tasks[2].due_at = <<"2", "0", "2", "6", "-", "0", "1", "-", "1", "0", " ", "1", "8", ":", "0", "0">> /\ tasks[2].status = <<"o", "p", "e", "n">>
    /\ tasks[2].deleted_at = toISOString(0)
    /\ tasks[1] = SeedTask(1, "S2", <<"a", "b", "c">>)

\* worker k fills the slot of a pending action: the step appends a row or
\* writes a soft delete
FillsSlot(k) ==
  /\ handlers[k].mode = "pending" /\ handlers'[k] # handlers[k]
  /\ handlers[k].pc \in {"append", "writeRow"}
  /\ tasks' # tasks \/ projects' # projects

\* worker j filled the slot of the pending action of (s, u), which is armed
\* still: j is before its clearPending
HasFilled(j, s, u) ==
  /\ handlers[j].mode = "pending" /\ handlers[j].pc = "settle"
  /\ handlers[j].spaceId = s /\ handlers[j].userId = u

\* C35  An armed pending action is answered by one store mutation at most,
\* however the user's follow-ups arrive: no handler fills the slot of a
\* pending action another handler has filled.
C35_OneMutationPerPending ==
  [][\A k \in Workers :
       FillsSlot(k)
       => ~\E j \in Workers \ {k} : HasFilled(j, handlers[k].spaceId, handlers[k].userId)]_vars

\* what the step does to the sheet rows, which becomes rows2, is the doing
\* of a handler of the space of each row concerned: a row added carries the
\* space of a handler that moved, a row changed is of such a space, and no
\* row changes its space
WithinSpace(rows, rows2) ==
  /\ Len(rows2) >= Len(rows)
  /\ \A i \in 1..Len(rows2) :
       (i > Len(rows) \/ rows2[i] # rows[i])
       => /\ \E k \in Workers : handlers'[k] # handlers[k] /\ rows2[i].group_id = handlers[k].spaceId
          /\ i <= Len(rows) => rows2[i].group_id = rows[i].group_id

\* the rows of space s, deleted or not
RowsOf(rows, s) == SelectSeq(rows, LAMBDA r : r.group_id = s)

\* C36  A message of space S changes the store only within S: a row it adds
\* carries S, a row it changes is a row of S.  A lookup matches rows of S
\* only, even by the identifier of a row of another space, and a list shows
\* rows of S only.
C36_SpaceIsolation ==
  [][/\ WithinSpace(tasks, tasks') /\ WithinSpace(projects, projects')
     /\ \A k \in Workers :
          /\ Stepped(k, "find")
             => \A n \in 1..Len(handlers'[k].found) :
                  \E i \in 1..Len(Sheet(handlers[k].kind)) :
                    /\ IdOf(handlers[k].kind, Sheet(handlers[k].kind)[i]) = handlers'[k].found[n]
                    /\ Sheet(handlers[k].kind)[i].group_id = handlers[k].spaceId
          /\ Stepped(k, "list")
             => \A n \in 1..Len(LastOut(handlers'[k]).body) :
                  \E i \in 1..Len(RowsOf(tasks, handlers[k].spaceId)) :
                    RowsOf(tasks, handlers[k].spaceId)[i].title = LastOut(handlers'[k]).body[n].title]_vars

\* the LINE group added a task and completed it, then named the Discord
\* channel's task by its identifier: the answer was that no task matches,
\* and that task is as it was
C36_Witness ==
  \E k \in Workers :
    /\ handlers[k].pc = "done" /\ handlers[k].spaceId = "S1"
    /\ handlers[k].stripped = <<"d", "o", "n", "e", " ", "t", "s", "k", "_", "0", "_", "1">>
    /\ handlers[k].found = <<>> /\ LastOut(handlers[k]).tag = "not_found"
    /\ Len(tasks) = 2
    /\ tasks[1] = SeedTask(1, "S2", <<"a", "b", "d">>)
    /\ tasks[2].group_id = "S1" /\ tasks[2].task_id = <<"t", "s", "k", "_", "0", "_", "2">> /\ tasks[2].status = <<"d", "o", "n", "e">>

\* C37  In the earlier revision, complete_task and reopen_task change rows
\* of the sender's space only: a write of the handler of a message of space
\* S leaves every row of another space as it was.
C37_EarlierWithinSpace ==
  [][\A k \in Workers :
       Stepped(k, "writeRow")
       => \A i \in 1..Len(tasks) :
            tasks[i].group_id # handlers[k].spaceId => tasks'[i] = tasks[i]]_vars

\* C38  The Templates sheet never holds two rows whose utterance texts are
\* the same but for case, however the handlers interleave.
C38_NoTwinTemplates ==
  \A i, j \in 1..Len(templates) :
    i # j => toLowerCase(templates[i].text) # toLowerCase(templates[j].text)

\* the follow-up of worker k ended without resolving the pending action
MissedFollowUp(h) ==
  /\ h.pc = "done" /\ h.route = "slot"
  /\ LastOut(h).tag \in {"not_found", "ambiguous", "need_title"}

\* the entry of space s is the entry e
Holds(map, s, e) == s \in DOMAIN map /\ map[s] = e

\* C39  A follow-up that does not resolve the pending action (a pending
\* delete whose query matches no live entity or several, a pending create
\* given no name) changes no row and leaves the entry as it was stored when
\* the message arrived, expiry included: neither the read of the entry nor
\* the miss renews it.
C39_MissKeepsEntry ==
  [][\A k \in Workers :
       /\ (Stepped(k, "received") /\ handlers'[k].route = "slot")
          => /\ UNCHANGED <<tasks, projects, pendingBySpace>>
             /\ handlers'[k].pending # NoPending
             /\ Holds(pendingBySpace', handlers[k].spaceId, handlers'[k].pending)
       /\ ((Stepped(k, "received") \/ Stepped(k, "find")) /\ MissedFollowUp(handlers'[k]))
          => /\ UNCHANGED <<tasks, projects, pendingBySpace>>
             /\ Holds(pendingBySpace', handlers[k].spaceId, handlers'[k].had)
             /\ handlers'[k].had = handlers'[k].pending]_vars

\* the question was asked at instant 0; at the last instant of the entry's
\* life the answer named two tasks, and the entry still expires then
C39_Witness ==
  \E k \in Workers :
    /\ MissedFollowUp(handlers[k]) /\ LastOut(handlers[k]).tag = "ambiguous"
    /\ handlers[k].at = TtlMs /\ now = TtlMs
    /\ Holds(pendingBySpace, "S1", [action |-> "delete_task", userId |-> "U1", expiresAt |-> TtlMs])
    /\ tasks = <<SeedTask(1, "S1", <<"a", "b", "c">>), SeedTask(2, "S1", <<"a", "b", "d">>)>>

====
